---- MODULE Spec2Model ----
(***************************************************************************)
(* Workspace mutation and synchronisation engine of src/App.tsx.           *)
(*                                                                         *)
(* Rows are JavaScript objects: arrays (the working copy, the history      *)
(* entries, the list a batch run works on, the list a sync run closed      *)
(* over) hold REFERENCES to them, and a batch run writes fields in place.  *)
(* The model therefore keeps a heap of row objects and lists of            *)
(* references; a copy ({...p}, JSON.parse(JSON.stringify(..))) allocates.  *)
(* After every step the heap is garbage-collected and renumbered in a      *)
(* fixed traversal order, so a state is determined by the shape of the     *)
(* object graph and not by allocation history.                             *)
(***************************************************************************)
EXTENDS Integers, Sequences, FiniteSets, TLC

VARIABLES
    heap,               \* row objects: reference -> row
    products,           \* useState products: list of references
    originalProducts,   \* last known server state: id -> reference
    immutableProducts,  \* initial session snapshot: id -> reference
    historyPast,        \* list of lists of references
    historyFuture,      \* list of lists of references
    selectedIds,        \* a JS Set: iteration order is insertion order
    selectedColumns,    \* ordered list of field names
    columnModes,        \* field name -> optimisation mode
    status,             \* {total, completed, isProcessing}
    syncStatus,         \* a JS object: ordered list of [id, st] entries
    isConnected,
    isShopifyLoading,
    remote,             \* the remote catalog: id -> row
    opt,                \* the running startOptimization call, if any
    sync,               \* the running handleSync call, if any
    sync2,              \* a second handleSync call running at the same time, if any
    blog,               \* the running handleGenerateBlogs call, if any
    blogCount,          \* useState blogCount
    articles,           \* the articles created in the store: product ids
    ai,                 \* the running executeAiCall, if any
    pure,               \* the pure function under test: its input and its result
    shopifyCreds,       \* useState shopifyCreds: the content of the connection form
    localStorage,       \* the items stored under seo_shop_creds: none or one
    conn,               \* the running handleShopifyConnect call, if any
    error,              \* useState error: null or a message
    obs,                \* observer: the last uninterrupted mutation
    ops                 \* the number of operations the user has started

vars == <<heap, products, originalProducts, immutableProducts, historyPast,
          historyFuture, selectedIds, selectedColumns, columnModes, status,
          syncStatus, isConnected, isShopifyLoading, remote, opt,
          sync, sync2, blog, blogCount, articles, ai, pure, shopifyCreds,
          localStorage, conn, error, obs, ops>>

\* the state of the blog pipeline and of the gateway call
sideVars == <<blog, blogCount, articles, ai, pure, shopifyCreds, localStorage>>

----------------------------------------------------------------------------
(* Bounds and input sets *)

\* the user starts at most MaxOps operations (changes of the selection and of
\* the column configuration are not counted)
MaxOps == 4

\* the store holds at most MaxArticles articles: a run of handleGenerateBlogs
\* starts only if all the articles it asks for fit
MaxArticles == 4

\* a field name given to detectDefaultMode is made of at most MaxTokens pieces
MaxTokens == 3

Catalog == <<"p1", "p2">>

Ids == {Catalog[i] : i \in DOMAIN Catalog}

\* the keys of a row, in the order mapShopifyProduct writes them
KeyOrder == <<"id", "name", "slug">>

Results == {"", "b"}

\* error messages are lists of words; null is the empty list
null == <<>>

\* err.message of a rejected gateway call, of a rejected fetch and of a
\* rejected push
AiErrors == {<<"429", "Too Many Requests">>, <<"API key not valid">>}

FetchErrors == {<<"Failed to fetch">>}

PushErrors == {<<"Shopify Update Failed">>}

\* msg.includes(word)
MsgIncludes(msg, word) == \E i \in DOMAIN msg : msg[i] = word

\* the catalog of the remote store when the session starts: rows of one
\* text field, and rows of two (the second one empty for p2)
InitialRemote == [id \in Ids |-> [id |-> id, name |-> "a"]]

InitialRemoteSlug ==
    [id \in Ids |-> [id |-> id, name |-> "a", slug |-> IF id = "p1" THEN "s" ELSE ""]]

----------------------------------------------------------------------------
(* Sequences and the heap *)

Range(s) == {s[i] : i \in DOMAIN s}

\* Texts that are searched are sequences of characters.
\* t occurs in s: s.includes(t)
IsSubstring(t, s) ==
    \E i \in 0..(Len(s) - Len(t)) : SubSeq(s, i + 1, i + Len(t)) = t

UpperCase == <<"A", "B", "C", "D", "E", "F", "G", "H", "I", "J", "K", "L", "M", "N", "O", "P", "Q", "R", "S", "T", "U", "V", "W", "X", "Y", "Z">>

LowerCase == <<"a", "b", "c", "d", "e", "f", "g", "h", "i", "j", "k", "l", "m", "n", "o", "p", "q", "r", "s", "t", "u", "v", "w", "x", "y", "z">>

\* s.toLowerCase()
ToLowerCase(s) ==
    [i \in DOMAIN s |->
        IF \E j \in DOMAIN UpperCase : UpperCase[j] = s[i]
        THEN LowerCase[CHOOSE j \in DOMAIN UpperCase : UpperCase[j] = s[i]]
        ELSE s[i]] \o <<>>

\* the characters of the words of the model: the field names, the markers
\* the code looks for in a field name, and pieces of field names.  The four
\* Hebrew letters of the marker shiyukh are written by their names.
Chars(w) ==
    CASE w = "selling" -> <<"s", "e", "l", "l", "i", "n", "g">> []
         w = "bullets" -> <<"b", "u", "l", "l", "e", "t", "s">> []
         w = "option" -> <<"o", "p", "t", "i", "o", "n">> []
         w = "value" -> <<"v", "a", "l", "u", "e">> []
         w = "keyword" -> <<"k", "e", "y", "w", "o", "r", "d">> []
         w = "slug" -> <<"s", "l", "u", "g">> []
         w = "rank" -> <<"r", "a", "n", "k">> []
         w = "seo" -> <<"s", "e", "o">> []
         w = "description" -> <<"d", "e", "s", "c", "r", "i", "p", "t", "i", "o", "n">> []
         w = "short" -> <<"s", "h", "o", "r", "t">> []
         w = "name" -> <<"n", "a", "m", "e">> []
         w = "title" -> <<"t", "i", "t", "l", "e">> []
         w = "id" -> <<"i", "d">> []
         w = "SEO" -> <<"S", "E", "O">> []
         w = "Title" -> <<"T", "i", "t", "l", "e">> []
         w = "SHORT" -> <<"S", "H", "O", "R", "T">> []
         w = "math" -> <<"m", "a", "t", "h">> []
         w = "_" -> <<"_">> []
         w = "shiyukh" -> <<"shin", "yod", "vav", "kaf">>

RECURSIVE Flatten(_)
Flatten(ss) == IF ss = <<>> THEN <<>> ELSE Head(ss) \o Flatten(Tail(ss))

IndexOf(s, x) ==
    IF \E i \in DOMAIN s : s[i] = x
    THEN CHOOSE i \in DOMAIN s : s[i] = x /\ \A j \in 1..(i - 1) : s[j] # x
    ELSE 0

\* allocate the rows of the list vals after the last reference of h
Alloc(h, vals) == h \o vals

NewRefs(h, vals) == [i \in DOMAIN vals |-> Len(h) + i]

\* the rows a list of references denotes
Val(h, refs) == [i \in DOMAIN refs |-> h[refs[i]]]

ValMap(h, m) == [id \in DOMAIN m |-> h[m[id]]]

ValStack(h, st) == [i \in DOMAIN st |-> Val(h, st[i])]

\* products.findIndex(p => p.id === id), 0 for -1
FindIndex(h, refs, id) ==
    IF \E i \in DOMAIN refs : h[refs[i]].id = id
    THEN CHOOSE i \in DOMAIN refs :
            h[refs[i]].id = id /\ \A j \in 1..(i - 1) : h[refs[j]].id # id
    ELSE 0

MapRefs(m) == [i \in 1..Len(Catalog) |-> IF Catalog[i] \in DOMAIN m THEN m[Catalog[i]] ELSE 0]

\* every reference the program still holds, in a fixed traversal order
Roots(g) ==
    SelectSeq(g.products \o Flatten(g.past) \o Flatten(g.future) \o g.optRows
                \o g.syncRows \o MapRefs(g.orig) \o MapRefs(g.immut) \o g.sync2Rows,
              LAMBDA r : r # 0)

\* the references of t in the order of their first occurrence
RECURSIVE Dedupe(_, _)
Dedupe(t, acc) ==
    IF t = <<>> THEN acc
    ELSE Dedupe(Tail(t), IF Head(t) \in Range(acc) THEN acc ELSE Append(acc, Head(t)))

Renumber(g, order) ==
    LET ren(refs) == [i \in DOMAIN refs |-> IndexOf(order, refs[i])]
    IN  [heap |-> [n \in DOMAIN order |-> g.heap[order[n]]],
         products |-> ren(g.products),
         past |-> [i \in DOMAIN g.past |-> ren(g.past[i])],
         future |-> [i \in DOMAIN g.future |-> ren(g.future[i])],
         optRows |-> ren(g.optRows),
         syncRows |-> ren(g.syncRows),
         sync2Rows |-> ren(g.sync2Rows),
         orig |-> [id \in DOMAIN g.orig |-> IndexOf(order, g.orig[id])],
         immut |-> [id \in DOMAIN g.immut |-> IndexOf(order, g.immut[id])]]

\* garbage-collect and renumber references by first occurrence in Roots
Normalize(g) == Renumber(g, Dedupe(Roots(g), <<>>))

\* the object graph of the current state
Graph ==
    [heap |-> heap, products |-> products, past |-> historyPast,
     future |-> historyFuture, optRows |-> opt.newProducts,
     syncRows |-> sync.products, sync2Rows |-> sync2.products,
     orig |-> originalProducts, immut |-> immutableProducts]

\* write the normalised object graph g; optRest, syncRest and sync2Rest are
\* the coroutine records, whose reference lists come from g
Install2(g, optRest, syncRest, sync2Rest) ==
    \E n \in {Normalize(g)} :
        /\ heap' = n.heap
        /\ products' = n.products
        /\ historyPast' = n.past
        /\ historyFuture' = n.future
        /\ originalProducts' = n.orig
        /\ immutableProducts' = n.immut
        /\ opt' = [optRest EXCEPT !.newProducts = n.optRows]
        /\ sync' = [syncRest EXCEPT !.products = n.syncRows]
        /\ sync2' = [sync2Rest EXCEPT !.products = n.sync2Rows]

Install(g, optRest, syncRest) == Install2(g, optRest, syncRest, sync2)

----------------------------------------------------------------------------
(* The sync-status object: an ordered list of entries, like a JS object *)

HasStatus(ss, id) == \E i \in DOMAIN ss : ss[i].id = id

StatusOf(ss, id) ==
    IF HasStatus(ss, id) THEN ss[CHOOSE i \in DOMAIN ss : ss[i].id = id].st ELSE "absent"

\* {...prev, [id]: st}: an existing key keeps its place, a new key goes last
SetStatus(ss, id, st) ==
    IF HasStatus(ss, id)
    THEN [i \in DOMAIN ss |-> IF ss[i].id = id THEN [id |-> id, st |-> st] ELSE ss[i]]
    ELSE Append(ss, [id |-> id, st |-> st])

\* delete next[id]
DeleteStatus(ss, id) == SelectSeq(ss, LAMBDA e : e.id # id)

----------------------------------------------------------------------------
(* The observer.  It remembers the working copy before (W) and after (W2)  *)
(* the last mutation (a batch run, a revert) that ran with no other change *)
(* of the working copy or of the history in between, the lengths of the    *)
(* past stack (n) and of the future stack (dropped) when it began, and the *)
(* history operations that followed it.  It is no state of the program.    *)

NoObs == [mut |-> "none", W |-> <<>>, W2 |-> <<>>, n |-> 0, dropped |-> 0,
          after |-> <<>>, end |-> "none"]

ObserveHistoryOp(tag) ==
    IF /\ obs.mut \in {"batch", "revert"}
       /\ \/ obs.after = <<>> /\ tag = "undo"
          \/ obs.after = <<"undo">> /\ tag = "redo"
    THEN [obs EXCEPT !.after = Append(obs.after, tag)]
    ELSE NoObs

----------------------------------------------------------------------------
(* History helpers *)

\* JSON.parse(JSON.stringify(products)): fresh objects, same values
DeepCopy(h, refs) == NewRefs(h, Val(h, refs))

\* saveToHistory with the copy left out: the entry is the products list itself
saveToHistoryByRef(g) ==
    [g EXCEPT !.past = Append(g.past, g.products), !.future = <<>>]

\* saveToHistory with setHistoryFuture([]) left out
saveToHistoryKeepFuture(g) ==
    [g EXCEPT !.heap = Alloc(g.heap, Val(g.heap, g.products)),
              !.past = Append(g.past, DeepCopy(g.heap, g.products))]

\* saveToHistory on graph g: push a deep copy of products, clear the future
saveToHistory(g) ==
    [g EXCEPT !.heap = Alloc(g.heap, Val(g.heap, g.products)),
              !.past = Append(g.past, DeepCopy(g.heap, g.products)),
              !.future = <<>>]

\* handleUndo pushing the restored list, not the current one, onto the future
handleUndoWrongFuture ==
    /\ ops < MaxOps
    /\ ops' = ops + 1
    /\ Len(historyPast) # 0
    /\ LET previousState == historyPast[Len(historyPast)]
           newPast == SubSeq(historyPast, 1, Len(historyPast) - 1)
       IN  Install([Graph EXCEPT !.future = <<previousState>> \o historyFuture,
                                 !.products = previousState,
                                 !.past = newPast], opt, sync)
    /\ obs' = ObserveHistoryOp("undo")
    /\ UNCHANGED <<selectedIds, selectedColumns, columnModes, status,
                   syncStatus, isConnected, isShopifyLoading, remote, conn, error,
                   sideVars>>

handleUndo ==
    /\ ops < MaxOps
    /\ ops' = ops + 1
    /\ Len(historyPast) # 0
    /\ LET previousState == historyPast[Len(historyPast)]
           newPast == SubSeq(historyPast, 1, Len(historyPast) - 1)
       IN  Install([Graph EXCEPT !.future = <<products>> \o historyFuture,
                                 !.products = previousState,
                                 !.past = newPast], opt, sync)
    /\ obs' = ObserveHistoryOp("undo")
    /\ UNCHANGED <<selectedIds, selectedColumns, columnModes, status,
                   syncStatus, isConnected, isShopifyLoading, remote, conn, error,
                   sideVars>>

\* handleRedo that also resets the sync status of every record
handleRedoResetStatus ==
    /\ ops < MaxOps
    /\ ops' = ops + 1
    /\ Len(historyFuture) # 0
    /\ LET nextState == historyFuture[1]
           newFuture == Tail(historyFuture)
       IN  Install([Graph EXCEPT !.past = Append(historyPast, products),
                                 !.products = nextState,
                                 !.future = newFuture], opt, sync)
    /\ obs' = ObserveHistoryOp("redo")
    /\ syncStatus' = <<>>
    /\ UNCHANGED <<selectedIds, selectedColumns, columnModes, status,
                   isConnected, isShopifyLoading, remote, conn, error,
                   sideVars>>

\* handleRedo pushing the restored list, not the current one, on the past
\* stack
handleRedoWrongPast ==
    /\ ops < MaxOps
    /\ ops' = ops + 1
    /\ Len(historyFuture) # 0
    /\ LET nextState == historyFuture[1]
           newFuture == Tail(historyFuture)
       IN  Install([Graph EXCEPT !.past = Append(historyPast, nextState),
                                 !.products = nextState,
                                 !.future = newFuture], opt, sync)
    /\ obs' = ObserveHistoryOp("redo")
    /\ UNCHANGED <<selectedIds, selectedColumns, columnModes, status,
                   syncStatus, isConnected, isShopifyLoading, remote, conn, error,
                   sideVars>>

handleRedo ==
    /\ ops < MaxOps
    /\ ops' = ops + 1
    /\ Len(historyFuture) # 0
    /\ LET nextState == historyFuture[1]
           newFuture == Tail(historyFuture)
       IN  Install([Graph EXCEPT !.past = Append(historyPast, products),
                                 !.products = nextState,
                                 !.future = newFuture], opt, sync)
    /\ obs' = ObserveHistoryOp("redo")
    /\ UNCHANGED <<selectedIds, selectedColumns, columnModes, status,
                   syncStatus, isConnected, isShopifyLoading, remote, conn, error,
                   sideVars>>

\* the ids of the rows on display: the row buttons pass one of them
DisplayedIds == {heap[products[i]].id : i \in DOMAIN products}

\* handleRevert comparing the row on display, not the baseline, with the
\* last known remote state
handleRevertDirtyFromRow(id) ==
    /\ ops < MaxOps
    /\ ops' = ops + 1
    /\ LET g1 == saveToHistory(Graph)
           hasOriginal == id \in DOMAIN immutableProducts
           original == heap[immutableProducts[id]]
           idx == FindIndex(heap, products, id)
           fresh == Len(g1.heap) + 1
           g2 == IF hasOriginal /\ idx # 0
                 THEN [g1 EXCEPT !.heap = Alloc(g1.heap, <<original>>),
                                 !.products = [products EXCEPT ![idx] = fresh]]
                 ELSE g1
           isDirty == \/ id \notin DOMAIN originalProducts
                      \/ idx = 0
                      \/ heap[products[idx]] # heap[originalProducts[id]]
       IN  /\ Install(g2, opt, sync)
           /\ syncStatus' = IF ~hasOriginal THEN syncStatus
                            ELSE IF isDirty THEN SetStatus(syncStatus, id, "pending")
                            ELSE DeleteStatus(syncStatus, id)
           /\ obs' = [mut |-> "revert", W |-> Val(heap, products),
                      W2 |-> Val(g2.heap, g2.products), n |-> Len(historyPast),
                      dropped |-> Len(historyFuture), after |-> <<>>,
                      end |-> "completed"]
    /\ UNCHANGED <<selectedIds, selectedColumns, columnModes, status,
                   isConnected, isShopifyLoading, remote, conn, error,
                   sideVars>>

\* handleRevert without its call of saveToHistory
handleRevertNoHistory(id) ==
    /\ ops < MaxOps
    /\ ops' = ops + 1
    /\ LET g1 == Graph
           hasOriginal == id \in DOMAIN immutableProducts
           original == heap[immutableProducts[id]]
           idx == FindIndex(heap, products, id)
           fresh == Len(g1.heap) + 1
           g2 == IF hasOriginal /\ idx # 0
                 THEN [g1 EXCEPT !.heap = Alloc(g1.heap, <<original>>),
                                 !.products = [products EXCEPT ![idx] = fresh]]
                 ELSE g1
           isDirty == \/ id \notin DOMAIN originalProducts
                      \/ original # heap[originalProducts[id]]
       IN  /\ Install(g2, opt, sync)
           /\ syncStatus' = IF ~hasOriginal THEN syncStatus
                            ELSE IF isDirty THEN SetStatus(syncStatus, id, "pending")
                            ELSE DeleteStatus(syncStatus, id)
           /\ obs' = [mut |-> "revert", W |-> Val(heap, products),
                      W2 |-> Val(g2.heap, g2.products), n |-> Len(historyPast),
                      dropped |-> Len(historyFuture), after |-> <<>>,
                      end |-> "completed"]
    /\ UNCHANGED <<selectedIds, selectedColumns, columnModes, status,
                   isConnected, isShopifyLoading, remote, conn, error,
                   sideVars>>

handleRevert(id) ==
    /\ ops < MaxOps
    /\ ops' = ops + 1
    /\ LET g1 == saveToHistory(Graph)
           hasOriginal == id \in DOMAIN immutableProducts
           original == heap[immutableProducts[id]]
           idx == FindIndex(heap, products, id)
           fresh == Len(g1.heap) + 1
           g2 == IF hasOriginal /\ idx # 0
                 THEN [g1 EXCEPT !.heap = Alloc(g1.heap, <<original>>),
                                 !.products = [products EXCEPT ![idx] = fresh]]
                 ELSE g1
           isDirty == \/ id \notin DOMAIN originalProducts
                      \/ original # heap[originalProducts[id]]
       IN  /\ Install(g2, opt, sync)
           /\ syncStatus' = IF ~hasOriginal THEN syncStatus
                            ELSE IF isDirty THEN SetStatus(syncStatus, id, "pending")
                            ELSE DeleteStatus(syncStatus, id)
           /\ obs' = [mut |-> "revert", W |-> Val(heap, products),
                      W2 |-> Val(g2.heap, g2.products), n |-> Len(historyPast),
                      dropped |-> Len(historyFuture), after |-> <<>>,
                      end |-> "completed"]
    /\ UNCHANGED <<selectedIds, selectedColumns, columnModes, status,
                   isConnected, isShopifyLoading, remote, conn, error,
                   sideVars>>

----------------------------------------------------------------------------
(* Connecting: handleShopifyConnect, handleDisconnect *)

\* c.includes(marker), c the characters of a field name
Includes(c, marker) == IsSubstring(Chars(marker), c)

\* detectDefaultMode with the description rules after the name rule
detectDefaultModeNameFirst(colName) ==
    LET c == ToLowerCase(colName)
    IN  IF Includes(c, "selling") \/ Includes(c, "bullets") THEN "SELLING_BULLETS"
        ELSE IF Includes(c, "option") \/ Includes(c, "value") \/ Includes(c, "shiyukh")
        THEN "FACTUAL"
        ELSE IF Includes(c, "keyword") THEN "SEO_KEYWORD"
        ELSE IF Includes(c, "slug") THEN "SEO_SLUG"
        ELSE IF Includes(c, "rank") \/ Includes(c, "seo") THEN "SEO_HIGH"
        ELSE IF Includes(c, "name") \/ Includes(c, "title") THEN "PROFESSIONAL"
        ELSE IF Includes(c, "description") /\ ~Includes(c, "short") THEN "HTML_CONTENT"
        ELSE IF Includes(c, "short") THEN "SHORT_DESCRIPTION"
        ELSE "FACTUAL"

detectDefaultMode(colName) ==
    LET c == ToLowerCase(colName)
    IN  IF Includes(c, "selling") \/ Includes(c, "bullets") THEN "SELLING_BULLETS"
        ELSE IF Includes(c, "option") \/ Includes(c, "value") \/ Includes(c, "shiyukh")
        THEN "FACTUAL"
        ELSE IF Includes(c, "keyword") THEN "SEO_KEYWORD"
        ELSE IF Includes(c, "slug") THEN "SEO_SLUG"
        ELSE IF Includes(c, "rank") \/ Includes(c, "seo") THEN "SEO_HIGH"
        ELSE IF Includes(c, "description") /\ ~Includes(c, "short") THEN "HTML_CONTENT"
        ELSE IF Includes(c, "short") THEN "SHORT_DESCRIPTION"
        ELSE IF Includes(c, "name") \/ Includes(c, "title") THEN "PROFESSIONAL"
        ELSE "FACTUAL"

\* the identifiers of the products the store holds, in catalog order
Listed == SelectSeq(Catalog, LAMBDA id : id \in DOMAIN remote)

\* fetchShopifyProducts: the rows of the remote catalog, in catalog order
Fetched == [i \in DOMAIN Listed |-> remote[Listed[i]]]

\* Object.keys(fetched[0]) without image, id, status and permalink
ValidKeys(fetched) ==
    SelectSeq(KeyOrder, LAMBDA k :
        k \in DOMAIN fetched[1] /\ k \notin {"image", "id", "status", "permalink"})

\* the columns selected by default
DefaultColumns(validKeys) ==
    SelectSeq(validKeys, LAMBDA k :
        k \in {"name", "description", "slug", "rank_math_title", "rank_math_description",
                "rank_math_focus_keyword", "selling_bullets", "option1_name",
                "option1_values", "option2_name", "option2_values", "option3_name",
                "option3_values"})

\* DEFAULT_CREDS
DEFAULT_CREDS == [shop |-> <<>>, token |-> <<>>]

\* what the user types in the connection form: a shop address with its
\* scheme and a final slash, and one between spaces
FormCreds ==
    {[shop |-> <<"https://", "a.myshopify.com", "/">>, token |-> <<"shpat_a">>],
     [shop |-> <<" ", "b.myshopify.com", " ">>, token |-> <<"shpat_b">>]}

\* the credentials of the store of the catalog
StoreCreds == CHOOSE c \in FormCreds : c.token = <<"shpat_a">>

\* shop.trim()
RECURSIVE Trim(_)
Trim(shop) ==
    IF shop # <<>> /\ Head(shop) = " " THEN Trim(Tail(shop))
    ELSE IF shop # <<>> /\ shop[Len(shop)] = " " THEN Trim(SubSeq(shop, 1, Len(shop) - 1))
    ELSE shop

\* creds.shop.trim().replace(/^https?:\/\//, '').replace(/\/$/, '')
CleanShop(shop) ==
    LET t == Trim(shop)
        u == IF t # <<>> /\ Head(t) \in {"http://", "https://"} THEN Tail(t) ELSE t
    IN  IF u # <<>> /\ u[Len(u)] = "/" THEN SubSeq(u, 1, Len(u) - 1) ELSE u

\* the user fills in the connection form, on display until the catalog is
\* loaded
setShopifyCreds(c) ==
    /\ ~isConnected
    /\ shopifyCreds' = c
    /\ UNCHANGED <<heap, products, originalProducts, immutableProducts,
                   historyPast, historyFuture, selectedIds, selectedColumns,
                   columnModes, status, syncStatus, isConnected, isShopifyLoading,
                   remote, opt, sync, sync2, conn, obs, error, blog, blogCount,
                   articles, ai, pure, localStorage, ops>>

ConnectStart ==
    /\ ops < MaxOps
    /\ ops' = ops + 1
    /\ conn.pc = "idle"
    /\ ~(shopifyCreds.shop = <<>> \/ shopifyCreds.token = <<>>)
    /\ conn' = [pc |-> "fetch",
                cleanCreds |-> [shopifyCreds EXCEPT !.shop = CleanShop(shopifyCreds.shop)]]
    /\ isShopifyLoading' = TRUE
    /\ error' = null
    /\ UNCHANGED <<heap, products, originalProducts, immutableProducts,
                   historyPast, historyFuture, selectedIds, selectedColumns,
                   columnModes, status, syncStatus, isConnected, remote, opt,
                   sync, sync2, obs,
                   sideVars>>

\* handleShopifyConnect with origMap[p.id] = p: the snapshots are the rows
\* of the list themselves
ConnectOkNoCopy ==
    /\ UNCHANGED ops
    /\ conn.pc = "fetch"
    /\ LET h1 == Alloc(heap, Fetched)
           fetched == NewRefs(heap, Fetched)
           origMap == [id \in Range(Listed) |-> fetched[IndexOf(Listed, id)]]
       IN  Install([Graph EXCEPT !.heap = h1, !.products = fetched,
                                 !.past = <<>>, !.future = <<>>,
                                 !.orig = origMap, !.immut = origMap], opt, sync)
    /\ selectedColumns' = DefaultColumns(ValidKeys(Fetched))
    /\ columnModes' = [c \in Range(ValidKeys(Fetched)) |-> detectDefaultMode(Chars(c))]
    /\ isConnected' = TRUE
    /\ isShopifyLoading' = FALSE
    /\ conn' = [pc |-> "idle"]
    /\ obs' = NoObs
    /\ localStorage' = {conn.cleanCreds}
    /\ shopifyCreds' = conn.cleanCreds
    /\ UNCHANGED <<selectedIds, status, syncStatus, remote, error,
                   blog, blogCount, articles, ai, pure>>

ConnectOk ==
    /\ UNCHANGED ops
    /\ conn.pc = "fetch"
    /\ LET h1 == Alloc(heap, Fetched)
           fetched == NewRefs(heap, Fetched)
           h2 == Alloc(h1, Fetched)
           copies == NewRefs(h1, Fetched)
           origMap == [id \in Range(Listed) |-> copies[IndexOf(Listed, id)]]
       IN  Install([Graph EXCEPT !.heap = h2, !.products = fetched,
                                 !.past = <<>>, !.future = <<>>,
                                 !.orig = origMap, !.immut = origMap], opt, sync)
    /\ selectedColumns' = DefaultColumns(ValidKeys(Fetched))
    /\ columnModes' = [c \in Range(ValidKeys(Fetched)) |-> detectDefaultMode(Chars(c))]
    /\ isConnected' = TRUE
    /\ isShopifyLoading' = FALSE
    /\ conn' = [pc |-> "idle"]
    /\ obs' = NoObs
    /\ localStorage' = {conn.cleanCreds}
    /\ shopifyCreds' = conn.cleanCreds
    /\ UNCHANGED <<selectedIds, status, syncStatus, remote, error,
                   blog, blogCount, articles, ai, pure>>

\* handleShopifyConnect whose catch block leaves the connected screen
ConnectFailDisconnects ==
    /\ UNCHANGED ops
    /\ conn.pc = "fetch"
    /\ \E msg \in FetchErrors : error' = msg
    /\ isShopifyLoading' = FALSE
    /\ isConnected' = FALSE
    /\ conn' = [pc |-> "idle"]
    /\ UNCHANGED <<heap, products, originalProducts, immutableProducts,
                   historyPast, historyFuture, selectedIds, selectedColumns,
                   columnModes, status, syncStatus, remote, opt,
                   sync, sync2, obs, sideVars>>

ConnectFail ==
    /\ UNCHANGED ops
    /\ conn.pc = "fetch"
    /\ \E msg \in FetchErrors : error' = msg
    /\ isShopifyLoading' = FALSE
    /\ conn' = [pc |-> "idle"]
    /\ UNCHANGED <<heap, products, originalProducts, immutableProducts,
                   historyPast, historyFuture, selectedIds, selectedColumns,
                   columnModes, status, syncStatus, isConnected, remote, opt,
                   sync, sync2, obs,
                   sideVars>>

\* the button that calls it is part of the screen rendered when isConnected
handleDisconnect ==
    /\ ops < MaxOps
    /\ ops' = ops + 1
    /\ isConnected
    /\ Install([Graph EXCEPT !.products = <<>>, !.past = <<>>, !.future = <<>>],
               opt, sync)
    /\ isConnected' = FALSE
    /\ obs' = NoObs
    /\ UNCHANGED <<selectedIds, selectedColumns, columnModes, status,
                   syncStatus, isShopifyLoading, remote, conn, error,
                   sideVars>>

----------------------------------------------------------------------------
(* Selection and column configuration *)

toggleSelection(id) ==
    /\ UNCHANGED ops
    /\ id \in DisplayedIds
    /\ selectedIds' = IF id \in Range(selectedIds)
                      THEN SelectSeq(selectedIds, LAMBDA x : x # id)
                      ELSE Append(selectedIds, id)
    /\ UNCHANGED <<heap, products, originalProducts, immutableProducts,
                   historyPast, historyFuture, selectedColumns, columnModes,
                   status, syncStatus, isConnected, isShopifyLoading,
                   remote, opt, sync, sync2, conn, obs, error,
                   sideVars>>

toggleColumn(col) ==
    /\ UNCHANGED ops
    /\ col \in DOMAIN columnModes
    /\ selectedColumns' = IF col \in Range(selectedColumns)
                          THEN SelectSeq(selectedColumns, LAMBDA c : c # col)
                          ELSE Append(selectedColumns, col)
    /\ UNCHANGED <<heap, products, originalProducts, immutableProducts,
                   historyPast, historyFuture, selectedIds, columnModes,
                   status, syncStatus, isConnected, isShopifyLoading,
                   remote, opt, sync, sync2, conn, obs, error,
                   sideVars>>

\* the mode select of a column: the modes offered to the model's user
ModeInputs == {"SEO_SLUG", "SEO_HIGH"}

setColumnMode(col, mode) ==
    /\ UNCHANGED ops
    /\ col \in DOMAIN columnModes
    /\ col = "slug"
    /\ columnModes[col] # mode
    /\ columnModes' = [columnModes EXCEPT ![col] = mode]
    /\ UNCHANGED <<heap, products, originalProducts, immutableProducts,
                   historyPast, historyFuture, selectedIds, selectedColumns,
                   status, syncStatus, isConnected, isShopifyLoading,
                   remote, opt, sync, sync2, conn, obs, error,
                   sideVars>>

----------------------------------------------------------------------------
(* The batch pipeline: startOptimization *)

\* whether the instruction built for column col of row in mode mode is a
\* non-empty string: every mode wraps the value in a non-empty prompt, except
\* SEO_HIGH on a column that is neither a title nor a description, and
\* SHORT_DESCRIPTION, which keeps a non-empty value as it is
TextNonEmpty(row, col, mode) ==
    IF mode = "SEO_HIGH" /\ ~Includes(Chars(col), "title")
                         /\ ~Includes(Chars(col), "description")
    THEN row[col] # ""
    ELSE TRUE

\* selectedColumns.map(..).filter(item => item.text && item.text.length > 0),
\* as the list of the items' column names
BatchItems(row, cols, modes) ==
    SelectSeq(cols, LAMBDA col :
        TextNonEmpty(row, col, IF col \in DOMAIN modes THEN modes[col] ELSE "FACTUAL"))

IdleOpt == [pc |-> "idle", ids |-> <<>>, i |-> 0, newProducts |-> <<>>,
            cols |-> <<>>, modes |-> <<>>, items |-> <<>>]

\* Run the loop of startOptimization from iteration i (counted from 1) up to
\* its next await or its end.  acc records whether setProducts was called
\* and the last value given to setStatus's completed (-1: none).
RECURSIVE OptRun(_, _, _, _, _, _, _)
OptRun(i, ids, rows, h, cols, modes, acc) ==
    IF i > Len(ids)
    THEN [pc |-> "done", i |-> i, items |-> <<>>, installed |-> acc.installed,
          completed |-> acc.completed]
    ELSE LET productIndex == FindIndex(h, rows, ids[i])
         IN  IF productIndex = 0
             THEN OptRun(i + 1, ids, rows, h, cols, modes, acc)
             ELSE LET batchItems == BatchItems(h[rows[productIndex]], cols, modes)
                  IN  IF Len(batchItems) > 0
                      THEN [pc |-> "call", i |-> i, items |-> batchItems,
                            installed |-> acc.installed, completed |-> acc.completed]
                      ELSE IF i < Len(ids)
                      THEN [pc |-> "pause", i |-> i, items |-> <<>>,
                            installed |-> TRUE, completed |-> i]
                      ELSE OptRun(i + 1, ids, rows, h, cols, modes,
                                  [installed |-> TRUE, completed |-> i])

\* a rate-limit pause after every record, the last one included
AfterRecordAlwaysPauses(i, ids) ==
    [pc |-> "pause", i |-> i, items |-> <<>>, installed |-> TRUE, completed |-> i]

\* after the write of iteration i: the rate-limit pause, or the loop's end
AfterRecord(i, ids) ==
    IF i < Len(ids)
    THEN [pc |-> "pause", i |-> i, items |-> <<>>, installed |-> TRUE, completed |-> i]
    ELSE [pc |-> "done", i |-> i + 1, items |-> <<>>, installed |-> TRUE, completed |-> i]

\* the in-place writes of one record, batchItems.forEach((item, idx) => ..):
\* results[idx] goes to the column of batchItems[idx] unless it is falsy
RECURSIVE WriteFrom(_, _, _, _)
WriteFrom(row, items, results, k) ==
    IF k > Len(items) THEN row
    ELSE WriteFrom(IF k \in DOMAIN results /\ results[k] # ""
                   THEN [row EXCEPT ![items[k]] = results[k]]
                   ELSE row,
                   items, results, k + 1)

\* the writes without the test of results[idx]: an empty string is written
RECURSIVE WriteFromAll(_, _, _, _)
WriteFromAll(row, items, results, k) ==
    IF k > Len(items) THEN row
    ELSE WriteFromAll(IF k \in DOMAIN results
                      THEN [row EXCEPT ![items[k]] = results[k]]
                      ELSE row,
                      items, results, k + 1)

WriteResultsAll(row, items, results) == WriteFromAll(row, items, results, 1)

\* the writes of a forEach that stops after its first item
WriteResultsFirst(row, items, results) ==
    WriteFrom(row, SubSeq(items, 1, 1), results, 1)

WriteResults(row, items, results) == WriteFrom(row, items, results, 1)

\* the state after the loop reached outcome run, from graph g, the status st
\* and the coroutine record o
OptSettle(g, st, o, run) ==
    LET g1 == IF run.installed THEN [g EXCEPT !.products = g.optRows] ELSE g
        st1 == IF run.completed >= 0 THEN [st EXCEPT !.completed = run.completed] ELSE st
        finished == run.pc \in {"done", "failed"}
        g2 == IF finished THEN [g1 EXCEPT !.optRows = <<>>] ELSE g1
    IN  /\ Install(g2, IF finished THEN IdleOpt
                       ELSE [o EXCEPT !.pc = run.pc, !.i = run.i, !.items = run.items],
                   sync)
        /\ status' = IF finished THEN [st1 EXCEPT !.isProcessing = FALSE] ELSE st1
        /\ obs' = IF obs.mut = "running" \/ o.pc = "idle"
                  THEN IF finished
                       THEN [mut |-> "batch",
                             W |-> IF o.pc = "idle" THEN Val(heap, products) ELSE obs.W,
                             W2 |-> Val(g2.heap, g2.products),
                             n |-> IF o.pc = "idle" THEN Len(historyPast) ELSE obs.n,
                             dropped |-> IF o.pc = "idle" THEN Len(historyFuture)
                                         ELSE obs.dropped,
                             after |-> <<>>,
                             end |-> IF run.pc = "done" THEN "completed" ELSE "aborted"]
                       ELSE [mut |-> "running",
                             W |-> IF o.pc = "idle" THEN Val(heap, products) ELSE obs.W,
                             W2 |-> <<>>,
                             n |-> IF o.pc = "idle" THEN Len(historyPast) ELSE obs.n,
                             dropped |-> IF o.pc = "idle" THEN Len(historyFuture)
                                         ELSE obs.dropped,
                             after |-> <<>>, end |-> "none"]
                  ELSE NoObs

\* the sum over the records ids of the number of instructions the batch
\* builds for them from the columns cols in the modes modes
RECURSIVE FieldCount(_, _, _, _, _)
FieldCount(ids, rows, h, cols, modes) ==
    IF ids = <<>> THEN 0
    ELSE (IF FindIndex(h, rows, Head(ids)) = 0 THEN 0
          ELSE Len(BatchItems(h[rows[FindIndex(h, rows, Head(ids))]], cols, modes)))
         + FieldCount(Tail(ids), rows, h, cols, modes)

\* a progress total that counts instructions
RunTotalFields(ids, rows, h, cols, modes) == FieldCount(ids, rows, h, cols, modes)

\* the total of the progress status of a batch run: selectedIds.size
RunTotal(ids, rows, h, cols, modes) == Len(ids)

startOptimization ==
    /\ ops < MaxOps
    /\ ops' = ops + 1
    /\ ~(Len(selectedIds) = 0 \/ status.isProcessing)
    /\ error' = null
    /\ LET g1 == [saveToHistory(Graph) EXCEPT !.optRows = products]
           idsToProcess == selectedIds
           run == OptRun(1, idsToProcess, products, heap, selectedColumns, columnModes,
                         [installed |-> FALSE, completed |-> -1])
       IN  OptSettle(g1, [total |-> RunTotal(selectedIds, products, heap,
                                             selectedColumns, columnModes),
                          completed |-> 0, isProcessing |-> TRUE],
                     [IdleOpt EXCEPT !.ids = idsToProcess, !.cols = selectedColumns,
                                     !.modes = columnModes],
                     run)
    /\ UNCHANGED <<selectedIds, selectedColumns, columnModes, syncStatus,
                   isConnected, isShopifyLoading, remote, conn,
                   sideVars>>

\* the arrays of strings translateBatch can resolve with for n items
ResultLists(n) == UNION {[1..m -> Results] : m \in 0..n}

\* translateBatch resolves with results
OptCallOk(results) ==
    /\ UNCHANGED ops
    /\ opt.pc = "call"
    /\ LET id == opt.ids[opt.i]
           productIndex == FindIndex(heap, opt.newProducts, id)
           ref == opt.newProducts[productIndex]
           h1 == [heap EXCEPT ![ref] = WriteResults(heap[ref], opt.items, results)]
       IN  /\ OptSettle([Graph EXCEPT !.heap = h1], status, opt, AfterRecord(opt.i, opt.ids))
           /\ syncStatus' = SetStatus(syncStatus, id, "pending")
    /\ UNCHANGED <<selectedIds, selectedColumns, columnModes,
                   isConnected, isShopifyLoading, remote, conn, error,
                   sideVars>>

\* startOptimization with the try block inside the loop: a rejected call
\* sets the error and the loop goes on with the next record
OptCallFailSkips ==
    /\ UNCHANGED ops
    /\ opt.pc = "call"
    /\ \E msg \in AiErrors :
          error' = IF MsgIncludes(msg, "429")
                   THEN <<"Rate Limit Exceeded (429). Wait a moment.">>
                   ELSE <<"AI Optimization Error: ">> \o msg
    /\ OptSettle(Graph, status, opt, AfterRecord(opt.i, opt.ids))
    /\ UNCHANGED <<selectedIds, selectedColumns, columnModes, syncStatus,
                   isConnected, isShopifyLoading, remote, conn,
                   sideVars>>

\* translateBatch rejects with an error of message msg: the catch and
\* finally blocks
OptCallFailWith(msg) ==
    /\ UNCHANGED ops
    /\ opt.pc = "call"
    /\ error' = IF MsgIncludes(msg, "429")
                THEN <<"Rate Limit Exceeded (429). Wait a moment.">>
                ELSE <<"AI Optimization Error: ">> \o msg
    /\ OptSettle(Graph, status, opt,
                 [pc |-> "failed", i |-> opt.i, items |-> <<>>, installed |-> FALSE,
                  completed |-> -1])
    /\ UNCHANGED <<selectedIds, selectedColumns, columnModes, syncStatus,
                   isConnected, isShopifyLoading, remote, conn,
                   sideVars>>

\* translateBatch rejects
OptCallFail == \E msg \in AiErrors : OptCallFailWith(msg)

\* the 5000 ms rate-limit timer fires
OptPauseDone ==
    /\ UNCHANGED ops
    /\ opt.pc = "pause"
    /\ OptSettle(Graph, status, opt,
                 OptRun(opt.i + 1, opt.ids, opt.newProducts, heap, opt.cols, opt.modes,
                        [installed |-> FALSE, completed |-> -1]))
    /\ UNCHANGED <<selectedIds, selectedColumns, columnModes, syncStatus,
                   isConnected, isShopifyLoading, remote, conn, error,
                   sideVars>>

----------------------------------------------------------------------------
(* The blog pipeline: handleGenerateBlogs *)

\* the buttons of the article count
BlogCounts == {1, 2, 3}

\* err.message of the errors handleGenerateBlogs throws itself
NoBlogsFound == <<"no blogs found in the store">>

NoArticlesCreated == <<"no articles were created">>

ZeroPosts(name) == <<"AI generated 0 valid posts for product: ", name>>

ArticleErrors == {<<"Shopify accepted the request but returned no Article object">>}

IdleBlog == [pc |-> "idle", ids |-> <<>>, names |-> <<>>, i |-> 0, left |-> 0,
             successCount |-> 0, count |-> 0, base |-> 0]

setBlogCount(n) ==
    /\ UNCHANGED ops
    /\ n # blogCount
    /\ blogCount' = n
    /\ UNCHANGED <<heap, products, originalProducts, immutableProducts,
                   historyPast, historyFuture, selectedIds, selectedColumns,
                   columnModes, status, syncStatus, isConnected, isShopifyLoading,
                   remote, opt, sync, sync2, conn, obs, error, blog, articles, ai, pure,
                   shopifyCreds, localStorage>>

\* the index of the first id from position i on that products.find finds, or
\* Len(ids) + 1
RECURSIVE BlogFind(_, _, _)
BlogFind(i, ids, names) ==
    IF i > Len(ids) THEN i
    ELSE IF ids[i] \in DOMAIN names THEN i
    ELSE BlogFind(i + 1, ids, names)

\* the catch block without a finally block
BlogThrowNoFinally(msg, st) ==
    /\ error' = <<"Blog Generation Error: ">> \o msg
    /\ status' = st
    /\ blog' = IdleBlog

\* the catch block, then the finally block
BlogThrow(msg, st) ==
    /\ error' = <<"Blog Generation Error: ">> \o msg
    /\ status' = [st EXCEPT !.isProcessing = FALSE]
    /\ blog' = IdleBlog

\* the loop over idsToProcess from position i, with successCount articles
\* created so far and the status st, up to the next call of the gateway or
\* to the handler's end
BlogLoop(i, successCount, st) ==
    LET j == BlogFind(i, blog.ids, blog.names)
    IN  IF j <= Len(blog.ids)
        THEN /\ blog' = [blog EXCEPT !.pc = "generate", !.i = j, !.left = 0,
                                     !.successCount = successCount]
             /\ status' = st
             /\ UNCHANGED error
        ELSE IF successCount = 0
        THEN BlogThrow(NoArticlesCreated, st)
        ELSE /\ blog' = IdleBlog
             /\ status' = [st EXCEPT !.isProcessing = FALSE]
             /\ UNCHANGED error

BlogFrame ==
    UNCHANGED <<heap, products, originalProducts, immutableProducts,
                historyPast, historyFuture, selectedIds, selectedColumns,
                columnModes, syncStatus, isConnected, isShopifyLoading,
                remote, opt, sync, sync2, conn, obs, blogCount, ai, pure, shopifyCreds,
                localStorage, ops>>

\* handleGenerateBlogs without the test of status.isProcessing
handleGenerateBlogsNoGuard ==
    /\ ops < MaxOps
    /\ ops' = ops + 1
    /\ Len(articles) + Len(selectedIds) * blogCount <= MaxArticles
    /\ ~(Len(selectedIds) = 0)
    /\ status' = [total |-> Len(selectedIds) * blogCount, completed |-> 0,
                  isProcessing |-> TRUE]
    /\ error' = null
    /\ blog' = [pc |-> "fetch", ids |-> selectedIds,
                names |-> [id \in {heap[r].id : r \in Range(products)} |->
                              heap[CHOOSE r \in Range(products) : heap[r].id = id].name],
                i |-> 0, left |-> 0, successCount |-> 0, count |-> blogCount,
                base |-> Len(articles)]
    /\ UNCHANGED <<heap, products, originalProducts, immutableProducts,
                   historyPast, historyFuture, selectedIds, selectedColumns,
                   columnModes, syncStatus, isConnected, isShopifyLoading,
                   remote, opt, sync, sync2, conn, obs, blogCount, articles, ai, pure,
                   shopifyCreds, localStorage>>

handleGenerateBlogs ==
    /\ ops < MaxOps
    /\ ops' = ops + 1
    /\ Len(articles) + Len(selectedIds) * blogCount <= MaxArticles
    /\ ~(Len(selectedIds) = 0 \/ status.isProcessing)
    /\ status' = [total |-> Len(selectedIds) * blogCount, completed |-> 0,
                  isProcessing |-> TRUE]
    /\ error' = null
    /\ blog' = [pc |-> "fetch", ids |-> selectedIds,
                names |-> [id \in {heap[r].id : r \in Range(products)} |->
                              heap[CHOOSE r \in Range(products) : heap[r].id = id].name],
                i |-> 0, left |-> 0, successCount |-> 0, count |-> blogCount,
                base |-> Len(articles)]
    /\ UNCHANGED <<heap, products, originalProducts, immutableProducts,
                   historyPast, historyFuture, selectedIds, selectedColumns,
                   columnModes, syncStatus, isConnected, isShopifyLoading,
                   remote, opt, sync, sync2, conn, obs, blogCount, articles, ai, pure,
                   shopifyCreds, localStorage>>

\* fetchShopifyBlogs resolves with at least one blog
BlogFetchOk ==
    /\ blog.pc = "fetch"
    /\ BlogLoop(1, 0, status)
    /\ UNCHANGED articles
    /\ BlogFrame

\* fetchShopifyBlogs resolves with no blog
BlogFetchEmpty ==
    /\ blog.pc = "fetch"
    /\ BlogThrow(NoBlogsFound, status)
    /\ UNCHANGED articles
    /\ BlogFrame

\* fetchShopifyBlogs rejects
BlogFetchFail ==
    /\ blog.pc = "fetch"
    /\ \E msg \in FetchErrors : BlogThrow(msg, status)
    /\ UNCHANGED articles
    /\ BlogFrame

\* handleGenerateBlogs going on to the next product when it gets no post
BlogGenerateOkSkips(n) ==
    /\ blog.pc = "generate"
    /\ n <= blog.count
    /\ IF n = 0
       THEN BlogLoop(blog.i + 1, blog.successCount, status)
       ELSE /\ blog' = [blog EXCEPT !.pc = "create", !.left = n]
            /\ UNCHANGED <<status, error>>
    /\ UNCHANGED articles
    /\ BlogFrame

\* generateProductBlogs returning finalPosts, without slice(0, count)
BlogGenerateOkNoSlice(n) ==
    /\ blog.pc = "generate"
    /\ IF n = 0
       THEN BlogThrow(ZeroPosts(blog.names[blog.ids[blog.i]]), status)
       ELSE /\ blog' = [blog EXCEPT !.pc = "create", !.left = n]
            /\ UNCHANGED <<status, error>>
    /\ UNCHANGED articles
    /\ BlogFrame

\* generateProductBlogs resolves with n posts
BlogGenerateOk(n) ==
    /\ blog.pc = "generate"
    /\ n <= blog.count
    /\ IF n = 0
       THEN BlogThrow(ZeroPosts(blog.names[blog.ids[blog.i]]), status)
       ELSE /\ blog' = [blog EXCEPT !.pc = "create", !.left = n]
            /\ UNCHANGED <<status, error>>
    /\ UNCHANGED articles
    /\ BlogFrame

\* generateProductBlogs rejects
BlogGenerateFail ==
    /\ blog.pc = "generate"
    /\ \E msg \in AiErrors : BlogThrow(msg, status)
    /\ UNCHANGED articles
    /\ BlogFrame

\* createShopifyArticle resolves with an article; withId: it has an id
BlogCreateOk(withId) ==
    /\ blog.pc = "create"
    /\ articles' = Append(articles, blog.ids[blog.i])
    /\ LET successCount == IF withId THEN blog.successCount + 1 ELSE blog.successCount
           st == IF withId THEN [status EXCEPT !.completed = status.completed + 1]
                 ELSE status
       IN  IF blog.left > 1
           THEN /\ blog' = [blog EXCEPT !.left = blog.left - 1,
                                        !.successCount = successCount]
                /\ status' = st
                /\ UNCHANGED error
           ELSE BlogLoop(blog.i + 1, successCount, st)
    /\ BlogFrame

\* createShopifyArticle rejects
BlogCreateFail ==
    /\ blog.pc = "create"
    /\ \E msg \in ArticleErrors : BlogThrow(msg, status)
    /\ UNCHANGED articles
    /\ BlogFrame

----------------------------------------------------------------------------
(* The sync reconciler: handleSync *)

IdleSync == [pc |-> "idle", ids |-> <<>>, k |-> 0, products |-> <<>>, sent |-> <<>>]

\* Object.keys(syncStatus).filter(id => syncStatus[id] === 'pending')
PendingIds(ss) ==
    LET pend == SelectSeq(ss, LAMBDA e : e.st = "pending")
    IN  [i \in DOMAIN pend |-> pend[i].id]

\* Run the loop of handleSync from its k-th identifier up to the next push
\* or the loop's end: each identifier is set to syncing, one that the closed
\* over products list does not hold is skipped.
RECURSIVE SyncRun(_, _, _, _, _)
SyncRun(k, ids, rows, h, ss) ==
    IF k > Len(ids)
    THEN [pc |-> "idle", k |-> k, ss |-> ss, sent |-> <<>>]
    ELSE LET ss1 == SetStatus(ss, ids[k], "syncing")
             idx == FindIndex(h, rows, ids[k])
         IN  IF idx = 0
             THEN SyncRun(k + 1, ids, rows, h, ss1)
             ELSE [pc |-> "push", k |-> k, ss |-> ss1, sent |-> h[rows[idx]]]

\* the rows of the closed-over list that the rest of the work list can reach
Reachable(h, rows, ids, k) ==
    SelectSeq(rows, LAMBDA r : \E j \in k..Len(ids) : h[r].id = ids[j])

SyncSettle(g, ids, rows, run) ==
    /\ Install([g EXCEPT !.syncRows =
                    IF run.pc = "idle" THEN <<>> ELSE Reachable(g.heap, rows, ids, run.k)],
               opt,
               IF run.pc = "idle" THEN IdleSync
               ELSE [pc |-> "push", ids |-> ids, k |-> run.k, products |-> <<>>,
                     sent |-> run.sent])
    /\ syncStatus' = run.ss

\* specificId is an identifier, or "" for a call without argument
handleSync(specificId) ==
    /\ ops < MaxOps
    /\ ops' = ops + 1
    /\ sync.pc = "idle"
    /\ LET idsToSync == IF specificId # "" THEN <<specificId>> ELSE PendingIds(syncStatus)
       IN  /\ Len(idsToSync) # 0
           /\ SyncSettle(Graph, idsToSync, products,
                         SyncRun(1, idsToSync, products, heap, syncStatus))
    /\ UNCHANGED <<selectedIds, selectedColumns, columnModes, status,
                   isConnected, isShopifyLoading, remote, conn, obs, error,
                   sideVars>>

\* handleSync without setOriginalProducts after the push
SyncPushOkKeepOriginal ==
    /\ UNCHANGED ops
    /\ sync.pc = "push"
    /\ LET id == sync.ids[sync.k]
       IN  /\ SyncSettle(Graph, sync.ids, sync.products,
                         SyncRun(sync.k + 1, sync.ids, sync.products, heap,
                                 SetStatus(syncStatus, id, "synced")))
           /\ remote' = [remote EXCEPT ![id] = sync.sent]
    /\ UNCHANGED <<selectedIds, selectedColumns, columnModes, status,
                   isConnected, isShopifyLoading, conn, obs, error,
                   sideVars>>

\* updateShopifyProduct resolves
SyncPushOk ==
    /\ UNCHANGED ops
    /\ sync.pc = "push"
    /\ LET id == sync.ids[sync.k]
           product == sync.products[FindIndex(heap, sync.products, id)]
           h1 == Alloc(heap, <<heap[product]>>)
           g1 == [Graph EXCEPT !.heap = h1,
                               !.orig = [x \in DOMAIN originalProducts \cup {id} |->
                                            IF x = id THEN Len(heap) + 1
                                            ELSE originalProducts[x]]]
       IN  /\ SyncSettle(g1, sync.ids, sync.products,
                         SyncRun(sync.k + 1, sync.ids, sync.products, heap,
                                 SetStatus(syncStatus, id, "synced")))
           /\ remote' = [remote EXCEPT ![id] = sync.sent]
    /\ UNCHANGED <<selectedIds, selectedColumns, columnModes, status,
                   isConnected, isShopifyLoading, conn, obs, error,
                   sideVars>>

\* handleSync with setOriginalProducts moved after the try block: it runs
\* for a failed push as well
SyncPushFailSetsOriginal ==
    /\ UNCHANGED ops
    /\ sync.pc = "push"
    /\ \E msg \in PushErrors :
          error' = <<"Sync failed for ID ", sync.ids[sync.k], ": ">> \o msg
    /\ LET id == sync.ids[sync.k]
           product == sync.products[FindIndex(heap, sync.products, id)]
           h1 == Alloc(heap, <<heap[product]>>)
           g1 == [Graph EXCEPT !.heap = h1,
                               !.orig = [x \in DOMAIN originalProducts \cup {id} |->
                                            IF x = id THEN Len(heap) + 1
                                            ELSE originalProducts[x]]]
       IN  SyncSettle(g1, sync.ids, sync.products,
                      SyncRun(sync.k + 1, sync.ids, sync.products, heap,
                              SetStatus(syncStatus, id, "error")))
    /\ UNCHANGED <<selectedIds, selectedColumns, columnModes, status,
                   isConnected, isShopifyLoading, remote, conn, obs,
                   sideVars>>

\* handleSync without the try block: a rejected push ends the run
SyncPushFailAborts ==
    /\ UNCHANGED ops
    /\ sync.pc = "push"
    /\ \E msg \in PushErrors :
          error' = <<"Sync failed for ID ", sync.ids[sync.k], ": ">> \o msg
    /\ LET id == sync.ids[sync.k]
       IN  SyncSettle(Graph, sync.ids, sync.products,
                      [pc |-> "idle", k |-> sync.k, sent |-> <<>>,
                       ss |-> SetStatus(syncStatus, id, "error")])
    /\ UNCHANGED <<selectedIds, selectedColumns, columnModes, status,
                   isConnected, isShopifyLoading, remote, conn, obs,
                   sideVars>>

\* updateShopifyProduct rejects
SyncPushFail ==
    /\ UNCHANGED ops
    /\ sync.pc = "push"
    /\ \E msg \in PushErrors :
          error' = <<"Sync failed for ID ", sync.ids[sync.k], ": ">> \o msg
    /\ LET id == sync.ids[sync.k]
       IN  SyncSettle(Graph, sync.ids, sync.products,
                      SyncRun(sync.k + 1, sync.ids, sync.products, heap,
                              SetStatus(syncStatus, id, "error")))
    /\ UNCHANGED <<selectedIds, selectedColumns, columnModes, status,
                   isConnected, isShopifyLoading, remote, conn, obs,
                   sideVars>>

----------------------------------------------------------------------------
(* A second call of handleSync made while a first one is awaiting a push.  *)
(* Nothing in handleSync refuses it, and the button that calls it is      *)
(* enabled as long as one record is pending.  The first call runs in sync, *)
(* the overlapping one in sync2: the model follows two calls at a time.    *)

SyncSettle2(g, ids, rows, run) ==
    /\ Install2([g EXCEPT !.sync2Rows =
                     IF run.pc = "idle" THEN <<>> ELSE Reachable(g.heap, rows, ids, run.k)],
                opt, sync,
                IF run.pc = "idle" THEN IdleSync
                ELSE [pc |-> "push", ids |-> ids, k |-> run.k, products |-> <<>>,
                      sent |-> run.sent])
    /\ syncStatus' = run.ss

\* handleSync(specificId) called while the call in sync awaits its push
handleSync2(specificId) ==
    /\ ops < MaxOps
    /\ ops' = ops + 1
    /\ sync.pc = "push"
    /\ sync2.pc = "idle"
    /\ LET idsToSync == IF specificId # "" THEN <<specificId>> ELSE PendingIds(syncStatus)
       IN  /\ Len(idsToSync) # 0
           /\ SyncSettle2(Graph, idsToSync, products,
                          SyncRun(1, idsToSync, products, heap, syncStatus))
    /\ UNCHANGED <<selectedIds, selectedColumns, columnModes, status,
                   isConnected, isShopifyLoading, remote, conn, obs, error,
                   sideVars>>

\* updateShopifyProduct resolves for the overlapping call
SyncPushOk2 ==
    /\ UNCHANGED ops
    /\ sync2.pc = "push"
    /\ LET id == sync2.ids[sync2.k]
           product == sync2.products[FindIndex(heap, sync2.products, id)]
           h1 == Alloc(heap, <<heap[product]>>)
           g1 == [Graph EXCEPT !.heap = h1,
                               !.orig = [x \in DOMAIN originalProducts \cup {id} |->
                                            IF x = id THEN Len(heap) + 1
                                            ELSE originalProducts[x]]]
       IN  /\ SyncSettle2(g1, sync2.ids, sync2.products,
                          SyncRun(sync2.k + 1, sync2.ids, sync2.products, heap,
                                  SetStatus(syncStatus, id, "synced")))
           /\ remote' = [remote EXCEPT ![id] = sync2.sent]
    /\ UNCHANGED <<selectedIds, selectedColumns, columnModes, status,
                   isConnected, isShopifyLoading, conn, obs, error,
                   sideVars>>

\* updateShopifyProduct rejects for the overlapping call
SyncPushFail2 ==
    /\ UNCHANGED ops
    /\ sync2.pc = "push"
    /\ \E msg \in PushErrors :
          error' = <<"Sync failed for ID ", sync2.ids[sync2.k], ": ">> \o msg
    /\ LET id == sync2.ids[sync2.k]
       IN  SyncSettle2(Graph, sync2.ids, sync2.products,
                       SyncRun(sync2.k + 1, sync2.ids, sync2.products, heap,
                               SetStatus(syncStatus, id, "error")))
    /\ UNCHANGED <<selectedIds, selectedColumns, columnModes, status,
                   isConnected, isShopifyLoading, remote, conn, obs,
                   sideVars>>

----------------------------------------------------------------------------
(* The gateway call with retries: AIService.executeAiCall.  Texts that are *)
(* searched are sequences of characters.                                   *)

\* the ceiling of attempts and the base of the backoff, in ms
maxRetries == 3

BaseDelay == 3000

\* the errors a gateway attempt can reject with: json is JSON.stringify(error),
\* message is error.message.  An Error object has no enumerable property and
\* is stringified as {}, whatever its message.
AiFailures ==
    {[json |-> <<"{", "S", ":", "4", "2", "9", "}">>, message |-> <<"Too Many Requests">>],
     [json |-> <<"{", "C", ":", "5", "0", "3", "}">>, message |-> <<"The model is overloaded">>],
     [json |-> <<"{", "1", "5", "0", "0", "}">>, message |-> <<>>],
     [json |-> <<"{", "}">>, message |-> <<"OpenAI Error: ", "429">>],
     [json |-> <<"{", "S", ":", "4", "0", "0", "}">>, message |-> <<"API key not valid">>]}

\* the values a gateway attempt can resolve with
AiValues == {<<>>, <<"b">>}

Providers == {"openai", "gemini"}

isTransient(err) ==
    LET errorStr == ToLowerCase(err.json)
    IN  \/ IsSubstring(<<"4", "2", "9">>, errorStr)
        \/ IsSubstring(<<"5", "0", "0">>, errorStr)
        \/ IsSubstring(<<"5", "0", "3">>, errorStr)

NoError == [json |-> <<>>, message |-> <<>>]

\* log: the outcome of each attempt so far; waits: the delays awaited so far
\* caller: the gateway call of a batch run that executeAiCall serves, if any
IdleAi == [pc |-> "idle", provider |-> "", attempt |-> 0, lastError |-> NoError,
           waits |-> <<>>, log |-> <<>>, result |-> <<>>, thrown |-> <<>>,
           caller |-> <<>>]

AiFrame ==
    UNCHANGED <<heap, products, originalProducts, immutableProducts,
                historyPast, historyFuture, selectedIds, selectedColumns,
                columnModes, status, syncStatus, isConnected, isShopifyLoading,
                remote, opt, sync, sync2, conn, obs, error, blog, blogCount,
                articles, pure, shopifyCreds, localStorage, ops>>

\* executeAiCall is called on a service configured for provider
AiStart(provider) ==
    /\ ai.pc = "idle"
    /\ ai' = [IdleAi EXCEPT !.pc = "call", !.provider = provider, !.attempt = 1]
    /\ AiFrame

\* callOpenAI or callGemini resolves with value
AiCallOk(value) ==
    /\ ai.pc = "call"
    /\ ai' = [ai EXCEPT !.pc = "returned", !.result = value,
                        !.log = Append(ai.log, [ok |-> TRUE, value |-> value])]
    /\ AiFrame

\* executeAiCall retrying every transient failure, the last attempt included
AiCallFailAlwaysRetries(err) ==
    /\ ai.pc = "call"
    /\ LET log == Append(ai.log, [ok |-> FALSE, error |-> err])
       IN  IF isTransient(err)
           THEN ai' = [ai EXCEPT !.pc = "wait", !.lastError = err, !.log = log,
                                 !.waits = Append(ai.waits, BaseDelay * 2 ^ ai.attempt)]
           ELSE ai' = [ai EXCEPT !.pc = "thrown", !.lastError = err, !.log = log,
                                 !.thrown = IF err.message # <<>> THEN err.message
                                            ELSE <<"AI Request failed.">>]
    /\ AiFrame

\* executeAiCall retrying every failure but the last, transient or not
AiCallFailRetriesAll(err) ==
    /\ ai.pc = "call"
    /\ LET log == Append(ai.log, [ok |-> FALSE, error |-> err])
       IN  IF ai.attempt < maxRetries
           THEN ai' = [ai EXCEPT !.pc = "wait", !.lastError = err, !.log = log,
                                 !.waits = Append(ai.waits, BaseDelay * 2 ^ ai.attempt)]
           ELSE ai' = [ai EXCEPT !.pc = "thrown", !.lastError = err, !.log = log,
                                 !.thrown = IF err.message # <<>> THEN err.message
                                            ELSE <<"AI Request failed.">>]
    /\ AiFrame

\* callOpenAI or callGemini rejects with err: the catch block, then the wait
\* or the throw after the loop
AiCallFail(err) ==
    /\ ai.pc = "call"
    /\ LET log == Append(ai.log, [ok |-> FALSE, error |-> err])
       IN  IF isTransient(err) /\ ai.attempt < maxRetries
           THEN ai' = [ai EXCEPT !.pc = "wait", !.lastError = err, !.log = log,
                                 !.waits = Append(ai.waits, BaseDelay * 2 ^ ai.attempt)]
           ELSE ai' = [ai EXCEPT !.pc = "thrown", !.lastError = err, !.log = log,
                                 !.thrown = IF err.message # <<>> THEN err.message
                                            ELSE <<"AI Request failed.">>]
    /\ AiFrame

\* the delay is over: continue with the next attempt
AiWaitDone ==
    /\ ai.pc = "wait"
    /\ ai' = [ai EXCEPT !.pc = "call", !.attempt = ai.attempt + 1]
    /\ AiFrame

----------------------------------------------------------------------------
(* The batch pipeline on top of executeAiCall: translateBatch returns the  *)
(* promise of executeAiCall, so the batch resumes with its value or with   *)
(* the error it throws.                                                    *)

\* the gateway call the batch run is awaiting: the number of operations
\* started so far tells the runs apart, opt.i the records of a run
Caller == <<ops, opt.i>>

\* translateBatch calls executeAiCall for the record the batch is at
AiStartForBatch(provider) ==
    /\ opt.pc = "call"
    /\ ai.caller # Caller
    /\ ai.pc \in {"idle", "returned", "thrown"}
    /\ ai' = [IdleAi EXCEPT !.pc = "call", !.provider = provider, !.attempt = 1,
                            !.caller = Caller]
    /\ AiFrame

\* executeAiCall has returned: the batch writes the record
OptAiReturned ==
    /\ opt.pc = "call"
    /\ ai.pc = "returned"
    /\ ai.caller = Caller
    /\ OptCallOk(ai.result)

\* executeAiCall has thrown: the batch catches the error
OptAiThrown ==
    /\ opt.pc = "call"
    /\ ai.pc = "thrown"
    /\ ai.caller = Caller
    /\ OptCallFailWith(ai.thrown)

----------------------------------------------------------------------------
(* The specification *)

InitProgram ==
    /\ heap = <<>>
    /\ products = <<>>
    /\ originalProducts = <<>>
    /\ immutableProducts = <<>>
    /\ historyPast = <<>>
    /\ historyFuture = <<>>
    /\ selectedIds = <<>>
    /\ selectedColumns = <<>>
    /\ columnModes = <<>>
    /\ status = [total |-> 0, completed |-> 0, isProcessing |-> FALSE]
    /\ syncStatus = <<>>
    /\ isConnected = FALSE
    /\ isShopifyLoading = FALSE
    /\ opt = IdleOpt
    /\ sync = IdleSync
    /\ sync2 = IdleSync
    /\ blog = IdleBlog
    /\ blogCount = 3
    /\ articles = <<>>
    /\ ai = IdleAi
    /\ conn = [pc |-> "idle"]
    /\ error = null
    /\ shopifyCreds = DEFAULT_CREDS
    /\ localStorage = {}
    /\ ops = 0

\* no pure function is under test
IdlePure == [f |-> "none", input |-> <<>>, done |-> FALSE, output |-> <<>>]

Init ==
    /\ InitProgram
    /\ remote = InitialRemote
    /\ obs = NoObs
    /\ pure = IdlePure

Next ==
    \/ handleUndo
    \/ handleRedo
    \/ \E id \in DisplayedIds : handleRevert(id)
    \/ setShopifyCreds(StoreCreds)
    \/ ConnectStart
    \/ ConnectOk
    \/ ConnectFail
    \/ handleDisconnect
    \/ \E id \in Ids : toggleSelection(id)
    \/ startOptimization
    \/ \E results \in ResultLists(Len(opt.items)) : OptCallOk(results)
    \/ OptCallFail
    \/ OptPauseDone
    \/ \E id \in DisplayedIds \cup {""} : handleSync(id)
    \/ SyncPushOk
    \/ SyncPushFail

Spec == Init /\ [][Next]_vars

\* A session of loads and batch runs on a catalog of rows with two text
\* fields, in which the user sets the selection, the columns and their
\* modes between the runs
InitBatch ==
    /\ InitProgram
    /\ remote = InitialRemoteSlug
    /\ obs = NoObs
    /\ pure = IdlePure

NextBatch ==
    \/ setShopifyCreds(StoreCreds)
    \/ ConnectStart
    \/ ConnectOk
    \/ ~status.isProcessing /\ \E id \in Ids : toggleSelection(id)
    \/ ~status.isProcessing /\ \E col \in Range(KeyOrder) : toggleColumn(col)
    \/ ~status.isProcessing
          /\ \E col \in Range(KeyOrder), mode \in ModeInputs : setColumnMode(col, mode)
    \/ startOptimization
    \/ \E results \in ResultLists(Len(opt.items)) : OptCallOk(results)
    \/ OptCallFail
    \/ OptPauseDone

SpecBatch == InitBatch /\ [][NextBatch]_vars

\* the two pipelines on rows of one text field
NextBlog ==
    \/ setShopifyCreds(StoreCreds)
    \/ ConnectStart
    \/ ConnectOk
    \/ ~status.isProcessing /\ \E id \in Ids : toggleSelection(id)
    \/ ~status.isProcessing /\ \E n \in BlogCounts : setBlogCount(n)
    \/ startOptimization
    \/ \E results \in ResultLists(Len(opt.items)) : OptCallOk(results)
    \/ OptCallFail
    \/ OptPauseDone
    \/ handleGenerateBlogs
    \/ BlogFetchOk
    \/ BlogFetchEmpty
    \/ BlogFetchFail
    \/ \E n \in 0..3 : BlogGenerateOk(n)
    \/ BlogGenerateFail
    \/ \E withId \in BOOLEAN : BlogCreateOk(withId)
    \/ BlogCreateFail

SpecBlog == Init /\ [][NextBlog]_vars

\* the gateway answers the call of the batch: it returns or it throws
OptResponse ==
    \/ \E results \in ResultLists(Len(opt.items)) : OptCallOk(results)
    \/ OptCallFail

\* the store or the gateway answers the call of the blog pipeline
BlogResponse ==
    \/ BlogFetchOk
    \/ BlogFetchEmpty
    \/ BlogFetchFail
    \/ \E n \in 0..3 : BlogGenerateOk(n)
    \/ BlogGenerateFail
    \/ \E withId \in BOOLEAN : BlogCreateOk(withId)
    \/ BlogCreateFail

\* the two pipelines run one after the other on a selection and a number of
\* posts chosen after the load
NextRuns ==
    \/ setShopifyCreds(StoreCreds)
    \/ ~isConnected /\ ConnectStart
    \/ ConnectOk
    \/ (~status.isProcessing /\ ops = 1) /\ \E id \in Ids : toggleSelection(id)
    \/ (~status.isProcessing /\ ops = 1) /\ \E n \in BlogCounts : setBlogCount(n)
    \/ startOptimization
    \/ OptResponse
    \/ OptPauseDone
    \/ handleGenerateBlogs
    \/ BlogResponse

SpecRuns == Init /\ [][NextRuns]_vars

\* every call is answered and every timer fires: the blog pipeline gets the
\* answer it awaits, and the batch is neither awaiting the gateway for ever
\* nor pausing for ever
SpecRunsFair ==
    /\ SpecRuns
    /\ WF_vars(BlogResponse)
    /\ []<>(opt.pc # "call")
    /\ []<>(opt.pc # "pause")

\* a session of loads, batch runs and presses of the sync-all button, which
\* calls handleSync() and stays enabled while a call is awaiting a push
NextSync ==
    \/ setShopifyCreds(StoreCreds)
    \/ ConnectStart
    \/ ConnectOk
    \/ ~status.isProcessing /\ \E id \in Ids : toggleSelection(id)
    \/ startOptimization
    \/ \E results \in ResultLists(Len(opt.items)) : OptCallOk(results)
    \/ OptCallFail
    \/ OptPauseDone
    \/ handleSync("")
    \/ SyncPushOk
    \/ SyncPushFail
    \/ handleSync2("")
    \/ SyncPushOk2
    \/ SyncPushFail2

SpecSync == Init /\ [][NextSync]_vars

\* a product is deleted in the store, outside the application; the store
\* keeps one product at least
RemoveFromStore(id) ==
    /\ UNCHANGED ops
    /\ id \in DOMAIN remote
    /\ Cardinality(DOMAIN remote) > 1
    /\ remote' = [x \in DOMAIN remote \ {id} |-> remote[x]]
    /\ UNCHANGED <<heap, products, originalProducts, immutableProducts,
                   historyPast, historyFuture, selectedIds, selectedColumns,
                   columnModes, status, syncStatus, isConnected, isShopifyLoading,
                   opt, sync, sync2, conn, obs, error, sideVars>>

\* a session on the connected screen (loads and reloads, batch runs, the
\* sync-all button) with a store whose catalog shrinks between two loads;
\* the store accepts or rejects an update of a product it holds and
\* rejects the update of a product it has lost
NextStore ==
    \/ setShopifyCreds(StoreCreds)
    \/ ConnectStart
    \/ ConnectOk
    \/ ~status.isProcessing /\ \E id \in Ids : toggleSelection(id)
    \/ startOptimization
    \/ \E results \in ResultLists(Len(opt.items)) : OptCallOk(results)
    \/ OptCallFail
    \/ OptPauseDone
    \/ \E id \in Ids : RemoveFromStore(id)
    \/ isConnected /\ handleSync("")
    \/ (sync.pc = "push" /\ sync.ids[sync.k] \in DOMAIN remote) /\ SyncPushOk
    \/ SyncPushFail

SpecStore == Init /\ [][NextStore]_vars

\* one call of executeAiCall, with every outcome of every attempt
NextAi ==
    \/ \E provider \in Providers : AiStart(provider)
    \/ \E value \in AiValues : AiCallOk(value)
    \/ \E err \in AiFailures : AiCallFail(err)
    \/ AiWaitDone

SpecAi == Init /\ [][NextAi]_vars

\* loads and batch runs whose gateway calls are calls of executeAiCall; the
\* user reloads and changes the selection between the runs
NextBatchAi ==
    \/ setShopifyCreds(StoreCreds)
    \/ ~status.isProcessing /\ ConnectStart
    \/ ConnectOk
    \/ ~status.isProcessing /\ \E id \in Ids : toggleSelection(id)
    \/ startOptimization
    \/ OptPauseDone
    \/ \E provider \in Providers : AiStartForBatch(provider)
    \/ ai.caller # <<>> /\ \E value \in AiValues : AiCallOk(value)
    \/ ai.caller # <<>> /\ \E err \in AiFailures : AiCallFail(err)
    \/ ai.caller # <<>> /\ AiWaitDone
    \/ OptAiReturned
    \/ OptAiThrown

SpecBatchAi == Init /\ [][NextBatchAi]_vars

\* The SEO score of a row: calculateSeoScore.  A string is a sequence of
\* characters; a tag of the HTML content (<h2 ..>, <ul ..>, ..) counts as one
\* character.

Tags == {"<h2>", "<h3>", "<ul>", "<ol>", "<img>", "<p>"}

Digits == {"0", "1", "2", "3", "4", "5", "6", "7", "8", "9"}

\* s.replace(/ /g, '-')
Hyphenate(s) == [i \in DOMAIN s |-> IF s[i] = " " THEN "-" ELSE s[i]] \o <<>>

\* encodeURIComponent(s) for letters, digits, hyphens and spaces
RECURSIVE EncodeURIComponent(_)
EncodeURIComponent(s) ==
    IF s = <<>> THEN <<>>
    ELSE (IF Head(s) = " " THEN <<"%", "2", "0">> ELSE <<Head(s)>>)
            \o EncodeURIComponent(Tail(s))

\* content.replace(/<[^>]*>/g, ' ')
StripTags(s) == [i \in DOMAIN s |-> IF s[i] \in Tags THEN " " ELSE s[i]] \o <<>>

\* s.substring(0, n)
Substring0(s, n) == SubSeq(s, 1, IF n < Len(s) THEN n ELSE Len(s))

\* s.split(/\s+/).filter(w => w.length > 0).length
WordCount(s) ==
    Cardinality({i \in DOMAIN s : s[i] # " " /\ (i = 1 \/ s[i - 1] = " ")})

\* s.indexOf(t)
IndexOfString(s, t) ==
    IF IsSubstring(t, s)
    THEN CHOOSE i \in 0..(Len(s) - Len(t)) :
            /\ SubSeq(s, i + 1, i + Len(t)) = t
            /\ \A j \in 0..(i - 1) : SubSeq(s, j + 1, j + Len(t)) # t
    ELSE -1

\* the number of matches of the global regular expression of t in s: the
\* matches are taken from left to right and do not overlap
RECURSIVE CountFrom(_, _, _)
CountFrom(at, len, from) ==
    LET rest == {i \in at : i >= from}
    IN  IF rest = {} THEN 0
        ELSE 1 + CountFrom(at, len, (CHOOSE i \in rest : \A j \in rest : i <= j) + len)

MatchCount(s, t) ==
    CountFrom({i \in 1..(Len(s) - Len(t) + 1) : SubSeq(s, i, i + Len(t) - 1) = t},
              Len(t), 1)

\* row[f] || ''
Field(row, f) == IF f \in DOMAIN row THEN row[f] ELSE <<>>

RECURSIVE SumPoints(_)
SumPoints(checks) ==
    IF checks = <<>> THEN 0 ELSE Head(checks).points + SumPoints(Tail(checks))

RECURSIVE AllIssues(_)
AllIssues(checks) ==
    IF checks = <<>> THEN <<>> ELSE Head(checks).issues \o AllIssues(Tail(checks))

Check(points, issues) == [points |-> points, issues |-> issues]

\* the checks of a row with a focus keyword, in the order of the code: the
\* points each one adds and the issues it reports (the density issues
\* without their percentage)
SubScores(row) ==
    LET keyword == Trim(ToLowerCase(Field(row, "rank_math_focus_keyword")))
        title == ToLowerCase(IF Field(row, "rank_math_title") # <<>>
                             THEN row.rank_math_title ELSE Field(row, "name"))
        desc == ToLowerCase(Field(row, "rank_math_description"))
        slug == ToLowerCase(Field(row, "slug"))
        content == ToLowerCase(Field(row, "description"))
        urlSafeKeyword == Hyphenate(keyword)
        cleanContent == StripTags(content)
        tenth == (Len(cleanContent) + 9) \div 10
        first10Percent == Substring0(cleanContent, IF tenth > 150 THEN tenth ELSE 150)
        wordCount == WordCount(cleanContent)
        keywordCount == MatchCount(cleanContent, keyword)
        has(tag) == \E i \in DOMAIN content : content[i] = tag
    IN  <<IF IsSubstring(keyword, title) THEN Check(10, <<>>)
          ELSE IF IsSubstring(Hyphenate(keyword), title)
          THEN Check(5, <<"Title: Keyword partial match only.">>)
          ELSE Check(0, <<"Title: Focus keyword missing.">>),
          IF IsSubstring(keyword, desc) THEN Check(10, <<>>)
          ELSE Check(0, <<"Meta Desc: Focus keyword missing.">>),
          IF \/ IsSubstring(keyword, slug)
             \/ IsSubstring(urlSafeKeyword, slug)
             \/ IsSubstring(EncodeURIComponent(keyword), slug)
          THEN Check(10, <<>>)
          ELSE Check(0, <<"URL: Focus keyword missing.">>),
          IF IsSubstring(keyword, first10Percent) THEN Check(15, <<>>)
          ELSE Check(0, <<"Content: Keyword missing in the first 10%.">>),
          IF (has("<h2>") \/ has("<h3>")) /\ IsSubstring(keyword, content)
          THEN Check(10, <<>>)
          ELSE Check(0, <<"Content: Keyword missing in H2/H3/H4 subheadings.">>),
          \* density = keywordCount / wordCount * 100, between 0.5 and 3.5
          IF wordCount > 0
          THEN IF 200 * keywordCount >= wordCount /\ 200 * keywordCount <= 7 * wordCount
               THEN Check(10, <<>>)
               ELSE IF keywordCount > 0
               THEN Check(5, IF 200 * keywordCount < wordCount
                             THEN <<"Density: Too low">> ELSE <<"Density: Too high">>)
               ELSE Check(0, <<"Density: Keyword not found in content body.">>)
          ELSE Check(0, <<"Content: No text found.">>),
          IF Len(slug) < 85 THEN Check(5, <<>>)
          ELSE Check(0, <<"URL: Too long (>85 chars).">>),
          IF wordCount > 200 THEN Check(5, <<>>)
          ELSE Check(0, <<"Content: Too short. Target 200+.">>),
          IF wordCount > 300 THEN Check(5, <<>>) ELSE Check(0, <<>>),
          IF \/ IndexOfString(title, keyword) = 0
             \/ 2 * IndexOfString(title, keyword) < Len(title)
          THEN Check(10, <<>>)
          ELSE Check(0, <<"Title: Keyword should be near the beginning.">>),
          IF \E i \in DOMAIN title : title[i] \in Digits THEN Check(5, <<>>)
          ELSE Check(0, <<"Title: Add a number (e.g. year, quantity) for CTR.">>),
          IF has("<ul>") \/ has("<ol>") THEN Check(5, <<>>)
          ELSE Check(0, <<"Content: Add bullet points/lists.">>),
          IF has("<img>") \/ Field(row, "image") # <<>> THEN Check(5, <<>>)
          ELSE Check(0, <<"Content: Add images/media.">>)>>

\* calculateSeoScore returning the sum of the points as it is
calculateSeoScoreNoMin(row) ==
    IF Trim(ToLowerCase(Field(row, "rank_math_focus_keyword"))) = <<>>
    THEN [score |-> 10, issues |-> <<"Missing Focus Keyword. Cannot score properly.">>]
    ELSE [score |-> SumPoints(SubScores(row)), issues |-> AllIssues(SubScores(row))]

calculateSeoScore(row) ==
    IF Trim(ToLowerCase(Field(row, "rank_math_focus_keyword"))) = <<>>
    THEN [score |-> 10, issues |-> <<"Missing Focus Keyword. Cannot score properly.">>]
    ELSE LET score == SumPoints(SubScores(row))
         IN  [score |-> IF score > 100 THEN 100 ELSE score,
              issues |-> AllIssues(SubScores(row))]

----------------------------------------------------------------------------
\* the keyboard shortcuts: Ctrl+Z, Ctrl+Shift+Z and Ctrl+Y
Shortcuts ==
    {[ctrlKey |-> TRUE, shiftKey |-> FALSE, key |-> "z"],
     [ctrlKey |-> TRUE, shiftKey |-> TRUE, key |-> "z"],
     [ctrlKey |-> TRUE, shiftKey |-> FALSE, key |-> "y"]}

\* the handler called by the shortcut returns before its first assignment
KeyReturn ==
    /\ ops < MaxOps
    /\ ops' = ops + 1
    /\ UNCHANGED <<heap, products, originalProducts, immutableProducts,
                   historyPast, historyFuture, selectedIds, selectedColumns,
                   columnModes, status, syncStatus, isConnected, isShopifyLoading,
                   remote, opt, sync, sync2, conn, obs, error, sideVars>>

\* handleKeyDown in which handleUndo and handleRedo have no early return and
\* put the list on display on the other stack
handleKeyDownNoReturn(e) ==
    LET undo == e.ctrlKey /\ e.key = "z" /\ ~e.shiftKey
        redo == e.ctrlKey /\ ((e.key = "z" /\ e.shiftKey) \/ e.key = "y")
    IN  IF undo /\ Len(historyPast) # 0 THEN handleUndo
        ELSE IF redo /\ Len(historyFuture) # 0 THEN handleRedo
        ELSE /\ ops < MaxOps
             /\ ops' = ops + 1
             /\ IF undo
                THEN Install([Graph EXCEPT !.future = <<products>> \o historyFuture],
                             opt, sync)
                ELSE Install([Graph EXCEPT !.past = Append(historyPast, products)],
                             opt, sync)
             /\ UNCHANGED <<selectedIds, selectedColumns, columnModes, status,
                            syncStatus, isConnected, isShopifyLoading, remote, conn,
                            obs, error, sideVars>>

\* the keydown listener: Ctrl+Z calls handleUndo, Ctrl+Shift+Z and Ctrl+Y
\* call handleRedo, whatever the state of the two buttons; handleUndo returns
\* at once when the undo stack is empty, handleRedo when the redo stack is
handleKeyDown(e) ==
    LET undo == e.ctrlKey /\ e.key = "z" /\ ~e.shiftKey
        redo == e.ctrlKey /\ ((e.key = "z" /\ e.shiftKey) \/ e.key = "y")
    IN  IF undo /\ Len(historyPast) # 0 THEN handleUndo
        ELSE IF redo /\ Len(historyFuture) # 0 THEN handleRedo
        ELSE KeyReturn

\* the session of Spec with the keyboard shortcuts
NextKeys ==
    \/ Next
    \/ \E e \in Shortcuts : handleKeyDown(e)

SpecKeys == Init /\ [][NextKeys]_vars

\* the session of Spec in which the user types either address in the
\* connection form
NextConnect ==
    \/ \E c \in FormCreds : setShopifyCreds(c)
    \/ ConnectStart
    \/ ConnectOk
    \/ ConnectFail
    \/ handleDisconnect
    \/ \E id \in Ids : toggleSelection(id)
    \/ startOptimization
    \/ \E results \in ResultLists(Len(opt.items)) : OptCallOk(results)
    \/ OptPauseDone
    \/ handleSync("")
    \/ SyncPushOk
    \/ SyncPushFail

SpecConnect == Init /\ [][NextConnect]_vars

\* the pieces of the field names given to detectDefaultMode: every marker
\* the function looks for, three of them with capital letters, and a
\* separator
NameTokens ==
    {"selling", "bullets", "option", "value", "shiyukh", "keyword", "slug", "rank",
     "seo", "description", "short", "name", "title", "SEO", "Title", "SHORT", "_"}

\* the field names made of at most n pieces, as sequences of characters
RECURSIVE FieldNames(_)
FieldNames(n) ==
    IF n = 0 THEN {<<>>}
    ELSE FieldNames(n - 1)
            \cup {Chars(w) \o rest : w \in NameTokens, rest \in FieldNames(n - 1)}

\* detectDefaultMode is about to be called on a field name
InitDetect ==
    /\ InitProgram
    /\ remote = InitialRemote
    /\ obs = NoObs
    /\ pure \in {[f |-> "detectDefaultMode", input |-> c, done |-> FALSE, output |-> ""] :
                    c \in FieldNames(MaxTokens) \ {<<>>}}

PureFrame ==
    UNCHANGED <<heap, products, originalProducts, immutableProducts,
                historyPast, historyFuture, selectedIds, selectedColumns,
                columnModes, status, syncStatus, isConnected, isShopifyLoading,
                remote, opt, sync, sync2, conn, obs, error, blog, blogCount,
                articles, ai, shopifyCreds, localStorage, ops>>

CallDetectDefaultMode ==
    /\ pure.f = "detectDefaultMode"
    /\ ~pure.done
    /\ pure' = [pure EXCEPT !.done = TRUE, !.output = detectDefaultMode(pure.input)]
    /\ PureFrame

SpecDetect == InitDetect /\ [][CallDetectDefaultMode]_vars

\* s repeated n times
Repeat(s, n) == [i \in 1..(n * Len(s)) |-> s[((i - 1) % Len(s)) + 1]] \o <<>>

\* the rows given to calculateSeoScore.  The focus keyword is missing, blank,
\* one word with a capital or two words; the other fields hold it, hold it
\* with a hyphen, or do not; the content has no word, a few, more than 200
\* or more than 300.
ScoreKeywords == {<<>>, <<" ">>, <<"K">>, <<" ", "k", " ", "w">>}

ScoreRowsOf(kw) ==
    {[rank_math_focus_keyword |-> kw, rank_math_title |-> <<>>, name |-> name,
      rank_math_description |-> desc, slug |-> slug, description |-> content,
      image |-> image] :
        name \in {<<>>, <<"x">>} \cup
                 {front \o Trim(k) \o back :
                     k \in {kw, Hyphenate(kw)},
                     front \in {<<>>, <<"x", "x", "x", "x", "x", "x", "x", " ">>},
                     back \in {<<>>, <<" ", "2">>}},
        desc \in {<<>>, kw},
        slug \in {<<>>, Hyphenate(Trim(kw)), Repeat(<<"s">>, 85)},
        content \in {intro \o Repeat(<<" ", "x">>, filler) \o outro :
                        intro \in {<<>>, <<"<h2>">> \o kw \o <<"<p>">> \o kw \o <<"<ul>">>},
                        filler \in {0, 2, 201, 301},
                        outro \in {<<>>, <<" ">> \o kw \o <<"<img>">>}},
        image \in {<<>>, <<"i">>}}

ScoreRows == UNION {ScoreRowsOf(kw) : kw \in ScoreKeywords}

\* calculateSeoScore is about to be called on a row
InitScore ==
    /\ InitProgram
    /\ remote = InitialRemote
    /\ obs = NoObs
    /\ pure \in {[f |-> "calculateSeoScore", input |-> row, done |-> FALSE,
                  output |-> [score |-> 0, issues |-> <<>>]] : row \in ScoreRows}

CallCalculateSeoScore ==
    /\ pure.f = "calculateSeoScore"
    /\ ~pure.done
    /\ pure' = [pure EXCEPT !.done = TRUE, !.output = calculateSeoScore(pure.input)]
    /\ PureFrame

SpecScore == InitScore /\ [][CallCalculateSeoScore]_vars


----------------------------------------------------------------------------
(* Properties *)

WorkingCopy == Val(heap, products)

Baseline(id) == IF id \in DOMAIN immutableProducts THEN heap[immutableProducts[id]] ELSE <<>>

LastKnownRemote(id) == IF id \in DOMAIN originalProducts THEN heap[originalProducts[id]] ELSE <<>>

\* the working-copy row of id, <<>> when the list does not hold id
Working(id) ==
    IF FindIndex(heap, products, id) = 0 THEN <<>>
    ELSE heap[products[FindIndex(heap, products, id)]]

\* C1: after a mutation (a batch run or a revert, begun with saveToHistory)
\* that took the working copy from W to W2, handleUndo leaves the working
\* copy equal to W and an immediately following handleRedo equal to W2.
C1_UndoRedoRestore ==
    /\ (obs.mut \in {"batch", "revert"} /\ obs.after = <<"undo">>) => WorkingCopy = obs.W
    /\ (obs.mut \in {"batch", "revert"} /\ obs.after = <<"undo", "redo">>)
          => WorkingCopy = obs.W2

C1_Witness ==
    /\ obs.mut = "batch"
    /\ obs.after = <<"undo", "redo">>
    /\ obs.W # obs.W2
    /\ WorkingCopy = obs.W2

\* C2: startOptimization (with a selection) and handleRevert leave the redo
\* stack empty, so that handleRedo is a no-op after them; handleUndo only
\* adds one entry in front of the redo stack and handleRedo only removes
\* the first one.
C2_RedoDiscardedByMutation ==
    [][/\ (startOptimization \/ \E id \in DisplayedIds : handleRevert(id))
            => historyFuture' = <<>>
       /\ handleUndo
            => /\ Len(historyFuture') = Len(historyFuture) + 1
               /\ ValStack(heap', Tail(historyFuture')) = ValStack(heap, historyFuture)
       /\ handleRedo
            => ValStack(heap', historyFuture') = ValStack(heap, Tail(historyFuture))]_vars

C2_Witness ==
    /\ obs.mut \in {"running", "batch", "revert"}
    /\ obs.dropped > 0
    /\ historyFuture = <<>>

\* C5: handleUndo and handleRedo leave the immutable baseline, the last
\* known remote state, the sync status and the selection as they are, and
\* everything else but the working copy and the two history stacks.
C5_UndoRedoFrame ==
    [][(handleUndo \/ handleRedo)
          => /\ ValMap(heap', immutableProducts') = ValMap(heap, immutableProducts)
             /\ ValMap(heap', originalProducts') = ValMap(heap, originalProducts)
             /\ syncStatus' = syncStatus
             /\ selectedIds' = selectedIds
             /\ Val(heap', opt'.newProducts) = Val(heap, opt.newProducts)
             /\ Val(heap', sync'.products) = Val(heap, sync.products)
             /\ UNCHANGED <<selectedColumns, columnModes, status, isConnected,
                            isShopifyLoading, remote, conn>>]_vars

C5_Witness ==
    /\ obs.after = <<"undo", "redo">>
    /\ syncStatus # <<>>
    /\ selectedIds # <<>>
    /\ \E id \in Ids : Baseline(id) # <<>> /\ Working(id) # Baseline(id)

\* C10: a batch run pushes exactly one history entry, equal to the working
\* copy before the run, while it runs and when it has completed or aborted;
\* handleUndo after the run gives every record its value of before the run.
C10_OneEntryPerBatch ==
    /\ (obs.mut \in {"running", "batch"} /\ obs.after = <<>>)
          => /\ Len(historyPast) = obs.n + 1
             /\ Val(heap, historyPast[Len(historyPast)]) = obs.W
    /\ (obs.mut = "batch" /\ obs.after = <<"undo">>)
          => /\ Len(historyPast) = obs.n
             /\ \A i \in DOMAIN obs.W : Working(obs.W[i].id) = obs.W[i]

C10_Witness ==
    /\ obs.mut = "batch"
    /\ obs.end = "aborted"
    /\ obs.after = <<"undo">>
    /\ status.total = 2
    /\ obs.W # obs.W2
    /\ WorkingCopy = obs.W

\* C3: no step other than a successful load changes the immutable baseline
\* of any record: batch runs with their in-place writes, reverts, undos,
\* redos, syncs and disconnects leave it as it is.
C3_BaselineFrozen ==
    [][~ConnectOk
          => ValMap(heap', immutableProducts') = ValMap(heap, immutableProducts)]_vars

C3_Witness ==
    /\ ~isConnected
    /\ \E id \in Ids :
          /\ Baseline(id) = InitialRemote[id]
          /\ LastKnownRemote(id) # Baseline(id)

\* C4: the last known remote state of id changes only in a successful load
\* or in a successful push of id; a failed push, a batch write, a revert, an
\* undo, a redo and a successful push of another record leave it unchanged.
C4_LastKnownRemoteFrame ==
    [][\A id \in Ids :
          LastKnownRemote(id)' # LastKnownRemote(id)
             => \/ ConnectOk
                \/ SyncPushOk /\ sync.ids[sync.k] = id]_vars

C4_Witness ==
    /\ sync.pc = "idle"
    /\ \E id1, id2 \in Ids :
          /\ StatusOf(syncStatus, id1) = "error"
          /\ LastKnownRemote(id1) = Baseline(id1)
          /\ Working(id1) # Baseline(id1)
          /\ StatusOf(syncStatus, id2) = "synced"
          /\ LastKnownRemote(id2) = Working(id2)
          /\ LastKnownRemote(id1) # LastKnownRemote(id2)

\* the rule of dirty status for record id
DirtyRule(id) ==
    StatusOf(syncStatus, id) =
        IF Working(id) # LastKnownRemote(id) THEN "pending" ELSE "absent"

\* C6: after a revert of a record and after a batch write to a record, the
\* record's status is pending if its working-copy value differs from its
\* last known remote value and absent if not.
C6_DirtyIffDiffers ==
    [][\A id \in Ids :
          /\ handleRevert(id) => DirtyRule(id)'
          /\ \A results \in ResultLists(Len(opt.items)) :
                (/\ opt.pc = "call"
                 /\ id = opt.ids[opt.i]
                 /\ \E k \in DOMAIN results : results[k] # ""
                 /\ OptCallOk(results)) => DirtyRule(id)']_vars

\* C7: when a push of id resolves and the record sent has not been written
\* since, the last known remote state of id is the record sent, the status
\* of id is synced, and the store holds the record sent.
C7_PushOkRecordsSent ==
    [][\A id \in Ids :
          (/\ SyncPushOk
           /\ sync.ids[sync.k] = id
           /\ Val(heap, sync.products)[FindIndex(heap, sync.products, id)] = sync.sent)
             => /\ LastKnownRemote(id)' = sync.sent
                /\ StatusOf(syncStatus', id) = "synced"
                /\ remote'[id] = sync.sent]_vars

C7_Witness ==
    \E id \in Ids :
       /\ StatusOf(syncStatus, id) = "synced"
       /\ LastKnownRemote(id) = Working(id)
       /\ remote[id] = Working(id)
       /\ Working(id) # Baseline(id)

\* C8: a failed push of the k-th record of a handleSync run sets that record
\* to error and changes the status of no other record except for the next
\* one, which is set to syncing and pushed: the run goes on.  Each push ends
\* with its own record synced or error according to its own outcome.
C8_FailedPushGoesOn ==
    [][/\ SyncPushFail
          => /\ StatusOf(syncStatus', sync.ids[sync.k]) = "error"
             /\ \A j \in 1..Len(sync.ids) :
                   j # sync.k =>
                      StatusOf(syncStatus', sync.ids[j]) =
                         IF j = sync.k + 1 THEN "syncing"
                         ELSE StatusOf(syncStatus, sync.ids[j])
             /\ \A id \in Ids \ Range(sync.ids) :
                   StatusOf(syncStatus', id) = StatusOf(syncStatus, id)
             /\ IF sync.k < Len(sync.ids)
                THEN /\ sync'.pc = "push"
                     /\ sync'.ids = sync.ids
                     /\ sync'.k = sync.k + 1
                ELSE sync'.pc = "idle"
       /\ SyncPushOk => StatusOf(syncStatus', sync.ids[sync.k]) = "synced"]_vars

C8_Witness ==
    /\ sync.pc = "push"
    /\ sync.k = 2
    /\ StatusOf(syncStatus, sync.ids[1]) = "error"
    /\ StatusOf(syncStatus, sync.ids[2]) = "syncing"

WorkingRows == [id \in Ids |-> Working(id)]

\* the rows of the list a batch run works on
RunRows == Val(heap, opt.newProducts)

\* C9 as claimed: when a gateway call of a batch run returns one string per
\* instruction, the k-th string is the new value of the field of the k-th
\* instruction, for every k.
C9_EveryResultWritten ==
    [][\A id \in Ids : \A results \in [1..Len(opt.items) -> Results] :
          (/\ opt.pc = "call"
           /\ id = opt.ids[opt.i]
           /\ OptCallOk(results))
             => \A k \in 1..Len(opt.items) : WorkingRows'[id][opt.items[k]] = results[k]]_vars

\* C9: when a gateway call of a batch run returns, the k-th returned string
\* is the new value of the field of the k-th instruction if it is not
\* empty, and that field keeps its value if the k-th string is empty or
\* missing; the record's other fields and the other records of the run's
\* list keep their values; the record's status is pending, and stays
\* pending as long as only batch runs, loads and selections happen.
C9_NonEmptyResultsWritten ==
    [][/\ \A id \in Ids : \A results \in ResultLists(Len(opt.items)) :
             (/\ opt.pc = "call"
              /\ id = opt.ids[opt.i]
              /\ OptCallOk(results))
                => LET row == RunRows[FindIndex(heap, opt.newProducts, id)]
                   IN  /\ \A k \in 1..Len(opt.items) :
                             WorkingRows'[id][opt.items[k]] =
                                IF k \in DOMAIN results /\ results[k] # ""
                                THEN results[k]
                                ELSE row[opt.items[k]]
                       /\ \A col \in DOMAIN row \ Range(opt.items) :
                             WorkingRows'[id][col] = row[col]
                       /\ \A j \in DOMAIN RunRows :
                             RunRows[j].id # id => WorkingRows'[RunRows[j].id] = RunRows[j]
                       /\ StatusOf(syncStatus', id) = "pending"
       /\ \A id \in Ids :
             StatusOf(syncStatus, id) = "pending" => StatusOf(syncStatus', id) = "pending"]_vars

C9_Witness ==
    /\ opt.pc = "pause"
    /\ opt.cols = <<"name", "slug">>
    /\ Working(opt.ids[1]) = [id |-> opt.ids[1], name |-> "b", slug |-> "s"]
    /\ StatusOf(syncStatus, opt.ids[1]) = "pending"
    /\ Working(opt.ids[2]) = Baseline(opt.ids[2])
    /\ StatusOf(syncStatus, opt.ids[2]) = "absent"

\* the messages the catch block of startOptimization sets
BatchErrors ==
    {<<"Rate Limit Exceeded (429). Wait a moment.">>}
       \cup {<<"AI Optimization Error: ">> \o msg : msg \in AiErrors}

\* C11: when the gateway call for the k-th record of a batch run fails, the
\* run ends (no call is in flight or will be made for a later record), the
\* working copy and every sync status are as before the failure, so that
\* the records before the k-th keep what the run wrote and their status; in
\* a run with no other operation in between, the k-th and the later records
\* have their values of before the run; the error is set, and nothing else
\* sets a batch error; isProcessing is false.
C11_FailedCallAborts ==
    [][/\ OptCallFail
          => /\ opt'.pc = "idle"
             /\ WorkingCopy' = WorkingCopy
             /\ syncStatus' = syncStatus
             /\ obs.mut = "running"
                   => \A j \in opt.i..Len(opt.ids) : \A r \in DOMAIN obs.W :
                         obs.W[r].id = opt.ids[j] => WorkingRows'[opt.ids[j]] = obs.W[r]
             /\ error' \in BatchErrors
             /\ status'.isProcessing = FALSE
             /\ status'.completed = opt.i - 1
       /\ (error' # error /\ error' \in BatchErrors) => OptCallFail]_vars

C11_Witness ==
    /\ obs.mut = "batch"
    /\ obs.end = "aborted"
    /\ obs.after = <<>>
    /\ error \in BatchErrors
    /\ ~status.isProcessing
    /\ status.completed = 1
    /\ status.total = 2
    /\ Len(obs.W) = 2
    /\ \E i, j \in 1..2 :
          /\ obs.W2[i] # obs.W[i]
          /\ StatusOf(syncStatus, obs.W[i].id) = "pending"
          /\ obs.W2[j] = obs.W[j]
          /\ StatusOf(syncStatus, obs.W[j].id) = "absent"

\* C12: the batch pipeline and the blog pipeline never run at the same time,
\* a running pipeline shows isProcessing, and while isProcessing is true or
\* the selection is empty a start request of either pipeline is no step at
\* all: no variable changes
C12_OnePipelineAtATime ==
    /\ ~(opt.pc # "idle" /\ blog.pc # "idle")
    /\ (opt.pc # "idle" \/ blog.pc # "idle") => status.isProcessing
    /\ (status.isProcessing \/ Len(selectedIds) = 0)
          => ~ENABLED startOptimization /\ ~ENABLED handleGenerateBlogs

\* a blog run is uploading posts after a batch has written a record, the
\* selection is not empty and the user can still start operations
C12_Witness ==
    /\ blog.pc = "create"
    /\ opt.pc = "idle"
    /\ status.isProcessing
    /\ Len(selectedIds) > 0
    /\ Len(historyPast) = 1
    /\ ops < MaxOps

Reverted(id) ==
    /\ Working(id) = Baseline(id)
    /\ StatusOf(syncStatus, id) =
          IF Baseline(id) = LastKnownRemote(id) THEN "absent" ELSE "pending"

\* C14: handleRevert(id) is idempotent on the working copy and on the status
\* map: it leaves id reverted (the row equal to the baseline, the status
\* decided by the baseline and the last known remote state), and applied to
\* a state where id is reverted it changes neither the working copy nor the
\* status map.
C14_RevertIdempotent ==
    [][\A id \in DisplayedIds :
          handleRevert(id)
             => /\ Reverted(id)'
                /\ Reverted(id) => /\ WorkingCopy' = WorkingCopy
                                   /\ syncStatus' = syncStatus]_vars

\* handleRevert has run twice in a row on a record a batch run had changed:
\* the second call changed nothing but the history
C14_Witness ==
    /\ obs.mut = "revert"
    /\ obs.W2 = obs.W
    /\ Len(historyPast) = 3
    /\ ValStack(heap, historyPast)[3] = WorkingCopy
    /\ ValStack(heap, historyPast)[2] # WorkingCopy
    /\ \E id \in Ids : Reverted(id) /\ StatusOf(syncStatus, id) = "absent"

\* C15: handleRevert(id) appends the working copy it finds to the past
\* stack, makes the row of id equal to its baseline, leaves the other rows
\* and the order of the list as they are, and sets the status of id to
\* absent if the baseline equals the last known remote state of id and to
\* pending otherwise; the status of the other records is unchanged.
C15_RevertEffect ==
    [][\A id \in DisplayedIds :
          handleRevert(id)
             => /\ ValStack(heap', historyPast')
                      = Append(ValStack(heap, historyPast), WorkingCopy)
                /\ Working(id)' = Baseline(id)
                /\ Len(WorkingCopy') = Len(WorkingCopy)
                /\ \A i \in DOMAIN WorkingCopy :
                      /\ WorkingCopy'[i].id = WorkingCopy[i].id
                      /\ WorkingCopy[i].id # id => WorkingCopy'[i] = WorkingCopy[i]
                /\ StatusOf(syncStatus', id) =
                      IF Baseline(id) = LastKnownRemote(id) THEN "absent" ELSE "pending"
                /\ \A other \in Ids \ {id} :
                      StatusOf(syncStatus', other) = StatusOf(syncStatus, other)]_vars

\* handleRevert has taken one of two rewritten records back to its baseline:
\* the other one is still rewritten and pending, and the top of the past
\* stack is the working copy from before the revert
C15_Witness ==
    /\ obs.mut = "revert"
    /\ obs.W2 # obs.W
    /\ historyPast # <<>>
    /\ ValStack(heap, historyPast)[Len(historyPast)] = obs.W
    /\ WorkingCopy = obs.W2
    /\ \E id, other \in Ids :
          /\ Working(id) = Baseline(id)
          /\ StatusOf(syncStatus, id) = "absent"
          /\ Working(other) # Baseline(other)
          /\ StatusOf(syncStatus, other) = "pending"

\* C16: a successful load leaves the working copy, the baseline and the last
\* known remote state equal to the fetched records, the two history stacks
\* empty and the selection empty.
C16_LoadResets ==
    [][ConnectOk
          => /\ WorkingCopy' = Fetched
             /\ \A id \in Ids : Baseline(id)' = remote[id]
             /\ \A id \in Ids : LastKnownRemote(id)' = remote[id]
             /\ historyPast' = <<>>
             /\ historyFuture' = <<>>
             /\ selectedIds' = <<>>]_vars

\* C17, the clause the claim singles out of its state machine: whatever the
\* interleaving of handleSync with batch writes and reverts, the status of a
\* record becomes synced or error only in a step that finds it syncing.
C17_SettledOnlyFromSyncing ==
    [][\A id \in Ids :
          (/\ StatusOf(syncStatus', id) \in {"synced", "error"}
           /\ StatusOf(syncStatus', id) # StatusOf(syncStatus, id))
             => StatusOf(syncStatus, id) = "syncing"]_vars

\* the records whose status is syncing
Syncing == {id \in Ids : StatusOf(syncStatus, id) = "syncing"}

\* C19: at any moment at most one push is in flight and at most one record
\* has status syncing, also when handleSync is called again before an
\* earlier call has finished.
C19_OnePushInFlight ==
    /\ ~(sync.pc = "push" /\ sync2.pc = "push")
    /\ Cardinality(Syncing) <= 1

\* C18: a call of handleSync without argument works on the records that are
\* pending when it is called, in the order of the status map, and pushes
\* only records of that list; a record in error becomes syncing again only
\* in a call of handleSync for that very identifier (a write makes it
\* pending first).
C18_PendingOnlyNoRetry ==
    [][/\ handleSync("") => /\ sync'.pc = "push" => sync'.ids = PendingIds(syncStatus)
                            /\ Syncing' \subseteq Syncing \cup Range(PendingIds(syncStatus))
       /\ handleSync2("") => /\ sync2'.pc = "push" => sync2'.ids = PendingIds(syncStatus)
                             /\ Syncing' \subseteq Syncing \cup Range(PendingIds(syncStatus))
       /\ \A id \in Ids :
             (/\ StatusOf(syncStatus, id) = "error"
              /\ StatusOf(syncStatus', id) = "syncing")
                => handleSync(id) \/ handleSync2(id)]_vars

\* the attempts of the log that failed with a transient error
TransientFailure(entry) == ~entry.ok /\ isTransient(entry.error)

\* C20: executeAiCall makes at most 3 gateway attempts and is over once the
\* third has answered; it returns the value of its first successful
\* attempt, every attempt before it having failed; after three transient
\* failures in a row it has thrown; the delays it awaits are 6000 ms after
\* a failed attempt 1 and 12000 ms after a failed attempt 2, each after a
\* failed attempt only, and there is none after the last attempt.
C20_AtMostThreeAttempts ==
    /\ ai.attempt <= 3
    /\ Len(ai.log) <= 3
    /\ Len(ai.log) = 3 => ai.pc \in {"returned", "thrown"}
    /\ ai.pc = "returned"
          => /\ ai.log[Len(ai.log)] = [ok |-> TRUE, value |-> ai.result]
             /\ \A i \in 1..(Len(ai.log) - 1) : ~ai.log[i].ok
    /\ (Len(ai.log) = 3 /\ \A i \in 1..3 : TransientFailure(ai.log[i]))
          => /\ ai.pc = "thrown"
             /\ ai.thrown # <<>>
    /\ ai.waits = SubSeq(<<6000, 12000>>, 1, Len(ai.waits))
    /\ \A i \in DOMAIN ai.waits : i < 3 /\ ~ai.log[i].ok
    /\ Len(ai.waits) = IF ai.pc \in {"returned", "thrown"} THEN Len(ai.log) - 1
                       ELSE Len(ai.log)

\* the call has thrown after three transient failures and two delays
C20_Witness ==
    /\ ai.pc = "thrown"
    /\ Len(ai.log) = 3
    /\ \A i \in 1..3 : TransientFailure(ai.log[i])
    /\ ai.waits = <<6000, 12000>>

\* C21: a failure of an attempt of executeAiCall that is not transient ends
\* the call with a thrown error in the same step, with no delay added; a
\* call that has thrown makes no further attempt; and the batch run that
\* awaits the call can only abort: it stops processing with the error set
\* and writes no record.
C21_FatalFailureEndsCall ==
    [][/\ \A err \in AiFailures :
             (AiCallFail(err) /\ ~isTransient(err))
                => /\ ai'.pc = "thrown"
                   /\ ai'.thrown # <<>>
                   /\ ai'.waits = ai.waits
                   /\ ai'.attempt = ai.attempt
       /\ (ai.pc = "thrown" /\ ai' # ai) => ai'.caller # ai.caller
       /\ (ai.pc = "thrown" /\ ai.caller = Caller /\ opt.pc = "call" /\ opt'.pc # "call")
             => /\ opt'.pc = "idle"
                /\ status'.isProcessing = FALSE
                /\ error' # null
                /\ WorkingCopy' = WorkingCopy
                /\ syncStatus' = syncStatus]_vars

\* a batch run over two records has been aborted at its second record by a
\* failure that is not transient, met at the second attempt of the call
C21_Witness ==
    /\ ai.pc = "thrown"
    /\ Len(ai.log) = 2
    /\ TransientFailure(ai.log[1])
    /\ ~isTransient(ai.log[2].error)
    /\ ai.waits = <<6000>>
    /\ ai.caller[2] = 2
    /\ opt.pc = "idle"
    /\ ~status.isProcessing
    /\ status.completed = 1
    /\ error # null

\* the rules of the default mode in their order: a rule matches a name that
\* holds one of the markers of any and none of the markers of none
ClaimedRules ==
    <<[any |-> {"selling", "bullets"}, none |-> {}, mode |-> "SELLING_BULLETS"],
      [any |-> {"option", "value"}, none |-> {}, mode |-> "FACTUAL"],
      [any |-> {"keyword"}, none |-> {}, mode |-> "SEO_KEYWORD"],
      [any |-> {"slug"}, none |-> {}, mode |-> "SEO_SLUG"],
      [any |-> {"rank", "seo"}, none |-> {}, mode |-> "SEO_HIGH"],
      [any |-> {"description"}, none |-> {"short"}, mode |-> "HTML_CONTENT"],
      [any |-> {"short"}, none |-> {}, mode |-> "SHORT_DESCRIPTION"],
      [any |-> {"name", "title"}, none |-> {}, mode |-> "PROFESSIONAL"]>>

\* the same rules with the third marker of the option rule
RulesWithShiyukh ==
    [ClaimedRules EXCEPT ![2].any = {"option", "value", "shiyukh"}]

\* the mode of the first rule of rules that the lower-cased name matches,
\* FACTUAL if none does
FirstMatch(rules, colName) ==
    LET c == ToLowerCase(colName)
        hits == {i \in DOMAIN rules :
                    /\ \E m \in rules[i].any : Includes(c, m)
                    /\ \A m \in rules[i].none : ~Includes(c, m)}
    IN  IF hits = {} THEN "FACTUAL"
        ELSE rules[CHOOSE i \in hits : \A j \in hits : i <= j].mode

\* C22 as claimed: detectDefaultMode returns, for every field name, the mode
\* of the first rule matched by the lower-cased name in the order
\* selling/bullets, option/value, keyword, slug, rank/seo, description
\* without short, short, name/title, and FACTUAL if no rule matches.
C22_FirstClaimedRuleWins ==
    (pure.f = "detectDefaultMode" /\ pure.done)
       => pure.output = FirstMatch(ClaimedRules, pure.input)

\* C22: the same, the option rule having three markers: option, value and
\* the Hebrew word shiyukh.
C22_FirstRuleWins ==
    (pure.f = "detectDefaultMode" /\ pure.done)
       => pure.output = FirstMatch(RulesWithShiyukh, pure.input)

\* a name written with capitals that holds seo and short got the generic
\* SEO mode
C22_Witness ==
    /\ pure.f = "detectDefaultMode"
    /\ pure.done
    /\ pure.input # ToLowerCase(pure.input)
    /\ Includes(ToLowerCase(pure.input), "seo")
    /\ Includes(ToLowerCase(pure.input), "short")
    /\ pure.output = "SEO_HIGH"

\* C23: a call of handleUndo with an empty undo stack and a call of
\* handleRedo with an empty redo stack change no state of the program.
C23_EmptyStackNoOp ==
    [][\A e \in Shortcuts :
          LET undo == e.key = "z" /\ ~e.shiftKey
          IN  (/\ handleKeyDown(e)
               /\ IF undo THEN Len(historyPast) = 0 ELSE Len(historyFuture) = 0)
                 => UNCHANGED <<heap, products, originalProducts, immutableProducts,
                                historyPast, historyFuture, selectedIds,
                                selectedColumns, columnModes, status, syncStatus,
                                isConnected, isShopifyLoading, remote, opt, sync,
                                conn, error>>]_vars

\* one operation has been performed, on empty stacks, and the program is in
\* its initial state
C23_Witness ==
    /\ ops = 1
    /\ historyPast = <<>> /\ historyFuture = <<>>
    /\ products = <<>> /\ selectedIds = <<>>
    /\ conn.pc = "idle" /\ ~isConnected /\ error = null

\* C24: a call of handleShopifyConnect whose catalog fetch fails leaves
\* the working copy, the baseline, the last known remote state, the two
\* history stacks, the selection, the sync status, the connected flag and
\* the stored credentials as they are, at its start and at the failure; the
\* failure sets the error message and puts the loading flag down.
C24_FailedLoadFrame ==
    [][/\ (ConnectStart \/ ConnectFail)
            => /\ WorkingCopy' = WorkingCopy
               /\ ValMap(heap', immutableProducts') = ValMap(heap, immutableProducts)
               /\ ValMap(heap', originalProducts') = ValMap(heap, originalProducts)
               /\ ValStack(heap', historyPast') = ValStack(heap, historyPast)
               /\ ValStack(heap', historyFuture') = ValStack(heap, historyFuture)
               /\ UNCHANGED <<selectedIds, syncStatus, isConnected, localStorage,
                              shopifyCreds>>
       /\ ConnectFail => error' \in FetchErrors /\ isShopifyLoading' = FALSE]_vars

\* a reload of a catalog with a rewritten, selected record failed
C24_Witness ==
    /\ error \in FetchErrors
    /\ conn.pc = "idle"
    /\ ~isShopifyLoading
    /\ isConnected
    /\ localStorage # {} /\ shopifyCreds \in localStorage
    /\ Len(historyPast) > 0
    /\ selectedIds # <<>>
    /\ syncStatus # <<>>
    /\ \E id \in Ids : WorkingCopy[IndexOf(Catalog, id)] # ValMap(heap, originalProducts)[id]

\* C25: when every call of the gateway and of the store is answered and
\* every pause ends, a pipeline run that has set isProcessing, be it
\* startOptimization or handleGenerateBlogs, sets it to false later on.
C25_RunsEnd == status.isProcessing ~> ~status.isProcessing

\* a batch run that was aborted and a blog run that created an article have
\* both ended
C25_Witness ==
    /\ ~status.isProcessing
    /\ opt.pc = "idle" /\ blog.pc = "idle"
    /\ obs.end = "aborted"
    /\ articles # <<>>

\* C26: when generateProductBlogs returns no post for a selected product,
\* handleGenerateBlogs ends there with an error message that holds the name
\* of the product; the run has created articles for earlier products only
\* and, once ended, creates none.
C26_ZeroPostsStopsRun ==
    [][/\ BlogGenerateOk(0)
            => /\ blog'.pc = "idle"
               /\ status'.isProcessing = FALSE
               /\ error' = <<"Blog Generation Error: ">>
                              \o ZeroPosts(blog.names[blog.ids[blog.i]])
               /\ articles' = articles
               /\ \A k \in (blog.base + 1)..Len(articles) :
                     IndexOf(blog.ids, articles[k]) < blog.i
       /\ blog.pc = "idle" => articles' = articles]_vars

\* a run has created an article for its first product and has ended on its
\* second one, of another name, with the error that names the second
C26_Witness ==
    /\ blog.pc = "idle"
    /\ ~status.isProcessing
    /\ Len(selectedIds) = 2
    /\ \E i, j \in DOMAIN products :
          LET first == heap[products[i]]
              second == heap[products[j]]
          IN  /\ selectedIds = <<first.id, second.id>>
              /\ first.name # second.name
              /\ articles = <<first.id>>
              /\ error = <<"Blog Generation Error: ">> \o ZeroPosts(second.name)

\* C27: in a batch run the handler leaves the call of the gateway for one
\* record only to pause or to end, it leaves the pause only when the 5000 ms
\* timer fires, so that the pause elapses between two consecutive calls, and
\* it does not pause after the last selected record.
C27_PauseBetweenCalls ==
    [][/\ opt.pc = "call"
            => \/ opt'.pc \in {"pause", "idle"}
               \/ opt'.pc = "call" /\ opt'.i = opt.i /\ opt'.ids = opt.ids
       /\ (opt.pc = "pause" /\ opt'.pc # "pause") => OptPauseDone
       /\ opt'.pc = "pause" => opt'.i < Len(opt'.ids)]_vars

\* one run has called the gateway for two records, rewritten both and ended
C27_Witness ==
    /\ opt.pc = "idle"
    /\ obs.mut = "batch" /\ obs.end = "completed"
    /\ status = [total |-> 2, completed |-> 2, isProcessing |-> FALSE]
    /\ \A i \in DOMAIN WorkingCopy : WorkingCopy[i] # obs.W[i]

\* C28: calculateSeoScore returns a score between 0 and 100: the points of
\* its checks sum to at most 105 and the score is that sum, or 100 when the
\* sum is above it; a row without a focus keyword scores exactly 10.
C28_ScoreInRange ==
    (pure.f = "calculateSeoScore" /\ pure.done)
       => /\ pure.output.score \in 0..100
          /\ IF Trim(ToLowerCase(pure.input.rank_math_focus_keyword)) = <<>>
             THEN pure.output.score = 10
             ELSE LET points == SumPoints(SubScores(pure.input))
                  IN  /\ points \in 0..105
                      /\ \A i \in DOMAIN SubScores(pure.input) :
                            SubScores(pure.input)[i].points >= 0
                      /\ pure.output.score = IF points <= 100 THEN points ELSE 100

\* a row that passes every check: 105 points, score 100
C28_Witness ==
    /\ pure.f = "calculateSeoScore"
    /\ pure.done
    /\ Trim(ToLowerCase(pure.input.rank_math_focus_keyword)) # <<>>
    /\ SumPoints(SubScores(pure.input)) = 105
    /\ pure.output.score = 100

\* C29: when the batch writes the record of its next call, every other
\* record of the working copy stays as it was just before the write, so
\* that what handleUndo, handleRedo, handleRevert or a reload did to the
\* working copy while the batch was suspended is still there.
C29_BatchKeepsInterleavedChange ==
    [][opt.pc = "call"
          => \A results \in ResultLists(Len(opt.items)) :
                OptCallOk(results)
                   => \A i \in DOMAIN WorkingCopy :
                         WorkingCopy[i].id # opt.ids[opt.i]
                            => /\ i \in DOMAIN WorkingCopy'
                               /\ WorkingCopy'[i] = WorkingCopy[i]]_vars

\* C30: the last known remote state of a record only ever becomes the value
\* just loaded for it or the value just sent for it by a push that
\* succeeded: a value the batch wrote into the record while the push was in
\* flight is not recorded.
C30_LastKnownRemoteWasSent ==
    [][\A id \in DOMAIN originalProducts' :
          \/ /\ id \in DOMAIN originalProducts
             /\ heap'[originalProducts'[id]] = heap[originalProducts[id]]
          \/ heap'[originalProducts'[id]] = remote'[id]]_vars

\* C31: a record of the working copy that differs from its last known remote
\* value has the status pending, syncing or error: it is never without a
\* status and never synced.
C31_UnsavedChangeHasStatus ==
    \A id \in DisplayedIds :
        (id \in DOMAIN originalProducts /\ Working(id) # LastKnownRemote(id))
           => StatusOf(syncStatus, id) \in {"pending", "syncing", "error"}

\* C32: a record whose status is syncing is the one a call of handleSync
\* is pushing: the answer of the store, which sets the status to synced or
\* to error, is still to come.  No record is syncing when no push is
\* awaited, whether the working copy holds its identifier or not, for
\* nothing would end its syncing status.
C32_SyncingIsBeingPushed ==
    \A id \in Ids :
        StatusOf(syncStatus, id) = "syncing"
           => sync.pc = "push" /\ sync.ids[sync.k] = id

\* C33: a successful load leaves no record with a sync status: the status
\* of every record is absent once the fetched catalog is installed.
C33_LoadClearsStatus ==
    [][ConnectOk => \A id \in Ids : StatusOf(syncStatus', id) = "absent"]_vars

\* the identifiers of a list of rows, in the order of the list
IdSequence(rows) == [i \in DOMAIN rows |-> rows[i].id]

\* C34: a step that is neither a successful load nor a disconnection keeps
\* the sequence of identifiers of the working copy (membership and order),
\* leaves every entry of the two history stacks with that same sequence, and
\* leaves the baseline and the last known remote record of an identifier
\* with that identifier.
C34_IdSequenceKept ==
    [][~(ConnectOk \/ handleDisconnect)
          => /\ IdSequence(WorkingCopy)' = IdSequence(WorkingCopy)
             /\ \A i \in DOMAIN historyPast' :
                   IdSequence(Val(heap', historyPast'[i])) = IdSequence(WorkingCopy')
             /\ \A i \in DOMAIN historyFuture' :
                   IdSequence(Val(heap', historyFuture'[i])) = IdSequence(WorkingCopy')
             /\ \A id \in DOMAIN originalProducts' : LastKnownRemote(id)'.id = id
             /\ \A id \in DOMAIN immutableProducts' : Baseline(id)'.id = id]_vars

\* C35: in every state the shared progress status has 0 <= completed <=
\* total; a run of startOptimization reports at most as many completed
\* records as it has selected records, and a run of handleGenerateBlogs
\* counts at most selected products times blogCount created articles.
C35_CompletedWithinTotal ==
    /\ 0 <= status.completed
    /\ status.completed <= status.total
    /\ opt.pc # "idle" => status.completed <= Len(opt.ids)
    /\ blog.pc # "idle"
          => /\ status.completed = blog.successCount
             /\ status.completed <= Len(blog.ids) * blog.count

\* a blog run of two articles or more is about to create its last one, all
\* the others having been counted
C35_Witness ==
    /\ blog.pc = "create"
    /\ blog.left = 1
    /\ blog.i = Len(blog.ids)
    /\ status.total >= 2
    /\ status.completed = status.total - 1

\* C36 as claimed: when a gateway call of a batch run returns, the record
\* has either every returned string in the field of its instruction, or
\* every field of an instruction as it was.
C36_AllReturnedOrNone ==
    [][\A id \in Ids : \A results \in ResultLists(Len(opt.items)) :
          (/\ opt.pc = "call"
           /\ id = opt.ids[opt.i]
           /\ OptCallOk(results))
             => LET row == RunRows[FindIndex(heap, opt.newProducts, id)]
                IN  \/ \A k \in DOMAIN results : WorkingRows'[id][opt.items[k]] = results[k]
                    \/ \A k \in 1..Len(opt.items) :
                          WorkingRows'[id][opt.items[k]] = row[opt.items[k]]]_vars

\* C36: the rows of the list a batch run works on change only in the step
\* in which a gateway call returns, and only the record of that call: in
\* that one step every non-empty returned string is written to the field of
\* its instruction and the other fields keep their values, so at a gateway
\* call, at a pause and after an abort a record has all of these writes or
\* none; a failed call leaves the working copy as it was, and the end of a
\* pause writes no field (a record of the working copy is as it was, or as
\* it is in the list of the run).
C36_NonEmptyResultsAtOnce ==
    [][/\ \A id \in Ids : \A results \in ResultLists(Len(opt.items)) :
             (/\ opt.pc = "call"
              /\ id = opt.ids[opt.i]
              /\ OptCallOk(results))
                => LET row == RunRows[FindIndex(heap, opt.newProducts, id)]
                   IN  \A col \in DOMAIN row :
                          WorkingRows'[id][col] =
                             IF \E k \in DOMAIN results : opt.items[k] = col /\ results[k] # ""
                             THEN results[CHOOSE k \in DOMAIN results : opt.items[k] = col]
                             ELSE row[col]
       /\ OptCallFail => WorkingCopy' = WorkingCopy
       /\ OptPauseDone
             => \A id \in Ids :
                   \/ WorkingRows'[id] = WorkingRows[id]
                   \/ \E j \in DOMAIN RunRows : WorkingRows'[id] = RunRows[j]
       /\ (opt.pc # "idle" /\ opt'.pc # "idle")
             => \A j \in DOMAIN RunRows :
                   RunRows'[j] # RunRows[j]
                      => /\ opt.pc = "call"
                         /\ RunRows[j].id = opt.ids[opt.i]]_vars

\* a run was aborted by the failure of its second call: the first record
\* has its two fields rewritten, the second has none
C36_Witness ==
    /\ obs.mut = "batch"
    /\ obs.end = "aborted"
    /\ opt.pc = "idle"
    /\ \E id1, id2 \in Ids :
          /\ id1 # id2
          /\ Working(id1).name = "b" /\ Working(id1).slug = "b"
          /\ StatusOf(syncStatus, id1) = "pending"
          /\ Working(id2) = Baseline(id2)
          /\ StatusOf(syncStatus, id2) = "absent"

\* the working copy and the two history stacks, by value
HistoryState ==
    [products |-> WorkingCopy,
     past |-> ValStack(heap, historyPast),
     future |-> ValStack(heap, historyFuture)]

\* what handleUndo makes of them when the past stack is not empty
AfterUndo ==
    [products |-> Val(heap, historyPast[Len(historyPast)]),
     past |-> ValStack(heap, SubSeq(historyPast, 1, Len(historyPast) - 1)),
     future |-> <<WorkingCopy>> \o ValStack(heap, historyFuture)]

\* what handleRedo makes of them when the future stack is not empty
AfterRedo ==
    [products |-> Val(heap, historyFuture[1]),
     past |-> Append(ValStack(heap, historyPast), WorkingCopy),
     future |-> ValStack(heap, Tail(historyFuture))]

\* C37: handleUndo takes the working copy and the two stacks to a state
\* from which handleRedo gives them back exactly, and handleRedo to a state
\* from which handleUndo gives them back exactly; each of the two keeps
\* |past| + |future|.
C37_UndoRedoInverse ==
    [][/\ handleUndo
             => /\ HistoryState' = AfterUndo
                /\ AfterRedo' = HistoryState
                /\ Len(historyPast') + Len(historyFuture')
                      = Len(historyPast) + Len(historyFuture)
       /\ handleRedo
             => /\ HistoryState' = AfterRedo
                /\ AfterUndo' = HistoryState
                /\ Len(historyPast') + Len(historyFuture')
                      = Len(historyPast) + Len(historyFuture)]_vars

\* a batch run was undone and redone: the working copy is the rewritten one
\* again, the past stack has its entry back and the future stack is empty
C37_Witness ==
    /\ obs.mut = "batch"
    /\ obs.after = <<"undo", "redo">>
    /\ obs.W # obs.W2
    /\ WorkingCopy = obs.W2
    /\ Len(historyPast) = obs.n + 1
    /\ historyFuture = <<>>

\* C38: for a row with a focus keyword, calculateSeoScore gives the 10
\* points of the check of the keyword at the start of the title exactly when
\* the title contains the keyword at a position within its first half, and
\* otherwise, in particular when the title does not contain the keyword,
\* gives no points for it and reports the issue "Title: Keyword should be
\* near the beginning.".
C38_KeywordInFirstHalf ==
    (/\ pure.f = "calculateSeoScore"
     /\ pure.done
     /\ Trim(ToLowerCase(pure.input.rank_math_focus_keyword)) # <<>>)
       => LET row == pure.input
              keyword == Trim(ToLowerCase(row.rank_math_focus_keyword))
              title == ToLowerCase(IF row.rank_math_title # <<>>
                                   THEN row.rank_math_title ELSE row.name)
              at == IndexOfString(title, keyword)
              inFirstHalf == at >= 0 /\ 2 * at < Len(title)
              issue == "Title: Keyword should be near the beginning."
          IN  /\ SubScores(row)[10].points = IF inFirstHalf THEN 10 ELSE 0
              /\ (issue \in Range(pure.output.issues)) <=> ~inFirstHalf

====
